---- MODULE Spec2Model ----
(***************************************************************************)
(* Model of the mail render template engine: the specification registry    *)
(* (RenderTemplateEngine, src/src/rte.rs) driving a render engine backend  *)
(* through load_templates / unload_templates (src/src/traits.rs,           *)
(* src/src/tera/mod.rs, src/src/handlebars/mod.rs).                        *)
(*                                                                         *)
(* Option<T> is modelled as a sequence: None is <<>>, Some(x) is <<x>>.    *)
(* Result<T, E> is a record with a boolean field ok.                       *)
(***************************************************************************)
EXTENDS Integers, Sequences, FiniteSets, TLC

\* ------------------------------------------------------------------ bounds
NumTpl == 3        \* number of distinct render template ids (TemplateSource ids)
NumRegIds == 2     \* number of distinct registry ids (keys of id2spec)
MaxSubs == 2       \* maximal number of SubTemplateSpecs of one TemplateSpec
NumNames == 2      \* number of distinct embedding names

TplIds == 1..NumTpl
RegIds == 1..NumRegIds
EmbNames == 1..NumNames

\* ------------------------------------------------------------- data model
\* The specs are those of a fixed family of template directories: the source
\* of a SubTemplateSpec is represented by its id, and the id of the template
\* file determines the directory it lies in, hence the media type and the
\* other files of that directory (the body embeddings).

\* Resource: identified by where it comes from
Resource(kind, dir, name) == [iri |-> <<kind, dir, name>>]

MediaTypes == {"text/plain", "text/html"}

\* the media type of the template file t
MediaTypeOf(t) == IF t % 2 = 1 THEN "text/plain" ELSE "text/html"

\* the embeddings found next to the template file t
BodyEmbeddingsOf(t) ==
    [n \in { m \in EmbNames : m < t } |-> Resource("body", t, n)]

\* the embeddings found in the base directory of the template file t
SharedEmbeddingsOf(t) ==
    [n \in { m \in EmbNames : m >= t } |-> Resource("shared", t, n)]

\* SubTemplateSpec { media_type, source, embeddings }
SubSpecOf(t) ==
    [media_type |-> MediaTypeOf(t), source |-> t, embeddings |-> BodyEmbeddingsOf(t)]

SubTemplateSpec == { SubSpecOf(t) : t \in TplIds }

\* Vec1<SubTemplateSpec>: a non-empty sequence
Vec1SubSpecs == UNION { [1..n -> SubTemplateSpec] : n \in 1..MaxSubs }

\* the attachments of a spec: one for every SubTemplateSpec after the first
AttachmentsOf(subs) ==
    [j \in 1..(Len(subs) - 1) |-> Resource("attachment", subs[1].source, j)]

\* TemplateSpec { templates, embeddings, attachments }
SpecOf(subs) ==
    [templates |-> subs,
     embeddings |-> SharedEmbeddingsOf(subs[1].source),
     attachments |-> AttachmentsOf(subs)]

TemplateSpec == { SpecOf(subs) : subs \in Vec1SubSpecs }

sub_specs(spec) == spec.templates

\* TemplateSource::id
id(source) == source

\* the set of SubSpecification ids of a spec
SubIds(spec) == { id(sub_specs(spec)[i].source) : i \in DOMAIN sub_specs(spec) }

None == <<>>
Some(x) == <<x>>

Ok == [ok |-> TRUE]
TemplateIdCollision(col_id) ==
    [ok |-> FALSE, error |-> [kind |-> "TemplateIdCollision", id |-> col_id]]
AddError(tpl) ==
    [ok |-> FALSE, error |-> [kind |-> "AddFailed", id |-> tpl]]

VARIABLES
    id2spec,     \* RenderTemplateEngine.id2spec: registry id -> TemplateSpec
    templates,   \* the names registered in the render engine (Tera.templates / Handlebars)
    global_embeddings,  \* RenderTemplateEngine.global_embeddings: name -> EmbeddedWithCId
    fix_newlines,       \* RenderTemplateEngine.fix_newlines
    free_templates,     \* HandlebarsRenderEngine.free_templates
    owned_spec,         \* a TemplateSpec its owner holds and mutates (None: not built yet)
    last         \* the last completed call: its arguments, result and pre-state

vars == <<id2spec, templates, global_embeddings, fix_newlines, free_templates,
          owned_spec, last>>

\* --------------------------------------------------------- render engine

\* variant: the cleanup forgets to unregister
error_cleanup_noop(engine, added_names) == engine

\* error_cleanup: unregister every name added during this call
error_cleanup(engine, added_names) ==
    engine \ { added_names[i] : i \in DOMAIN added_names }

\* variant: the name is remembered before the collision check, so the cleanup
\* also unregisters the template the name collided with
try_add_push_first(engine, tid, loaded, bad) ==
    IF tid \in engine
    THEN [engine |-> error_cleanup(engine, Append(loaded, tid)), loaded |-> loaded,
          res |-> TemplateIdCollision(tid)]
    ELSE IF tid \in bad
    THEN [engine |-> error_cleanup(engine, loaded), loaded |-> loaded,
          res |-> AddError(tid)]
    ELSE [engine |-> engine \cup {tid}, loaded |-> Append(loaded, tid),
          res |-> Ok]

\* variant: the add operation runs before the collision check
try_add_add_first(engine, tid, loaded, bad) ==
    IF tid \in bad
    THEN [engine |-> error_cleanup(engine, loaded), loaded |-> loaded,
          res |-> AddError(tid)]
    ELSE IF tid \in engine
    THEN [engine |-> error_cleanup(engine, loaded), loaded |-> loaded,
          res |-> TemplateIdCollision(tid)]
    ELSE [engine |-> engine \cup {tid}, loaded |-> Append(loaded, tid),
          res |-> Ok]

\* variant: no collision check, a template of that id is replaced
try_add_no_collision_check(engine, tid, loaded, bad) ==
    IF tid \in bad
    THEN [engine |-> error_cleanup(engine, loaded), loaded |-> loaded,
          res |-> AddError(tid)]
    ELSE [engine |-> engine \cup {tid}, loaded |-> Append(loaded, tid),
          res |-> Ok]

\* try_add_sub_template: collision check, then the add operation, then
\* remember the name.  bad is the set of ids whose add operation fails
\* (missing file, malformed template, ...).
try_add_sub_template(engine, tid, loaded, bad) ==
    IF tid \in engine
    THEN [engine |-> error_cleanup(engine, loaded), loaded |-> loaded,
          res |-> TemplateIdCollision(tid)]
    ELSE IF tid \in bad
    THEN [engine |-> error_cleanup(engine, loaded), loaded |-> loaded,
          res |-> AddError(tid)]
    ELSE [engine |-> engine \cup {tid}, loaded |-> Append(loaded, tid),
          res |-> Ok]

RECURSIVE load_loop(_, _, _, _, _)
load_loop(engine, spec, i, loaded, bad) ==
    IF i > Len(sub_specs(spec))
    THEN [engine |-> engine, res |-> Ok]
    ELSE LET r == try_add_sub_template(engine, id(sub_specs(spec)[i].source),
                                       loaded, bad)
         IN  IF r.res.ok
             THEN load_loop(r.engine, spec, i + 1, r.loaded, bad)
             ELSE [engine |-> r.engine, res |-> r.res]

\* RenderEngineBase::load_templates
load_templates(engine, spec, bad) == load_loop(engine, spec, 1, <<>>, bad)

RECURSIVE unload_loop(_, _, _)
unload_loop(engine, spec, i) ==
    IF i > Len(sub_specs(spec))
    THEN engine
    ELSE unload_loop(engine \ {id(sub_specs(spec)[i].source)}, spec, i + 1)

\* variant: every template of the engine is removed
unload_clear_all(engine, spec) == {}

\* variant: only the first sub-template is unloaded
unload_first_only(engine, spec) ==
    engine \ {id(sub_specs(spec)[1].source)}

\* variant: unloads only when all templates of the spec are loaded
unload_if_all_loaded(engine, spec) ==
    IF \A i \in DOMAIN sub_specs(spec) : id(sub_specs(spec)[i].source) \in engine
    THEN unload_loop(engine, spec, 1)
    ELSE engine

\* RenderEngineBase::unload_templates
unload_templates(engine, spec) == unload_loop(engine, spec, 1)

\* --------------------------------------------------------------- registry

\* HashMap::remove
MapRemove(map, key) == [k \in (DOMAIN map) \ {key} |-> map[k]]

\* HashMap::insert / Entry::insert
MapInsert(map, key, value) ==
    [k \in (DOMAIN map) \cup {key} |-> IF k = key THEN value ELSE map[k]]

\* InsertionError
InsertionError(error, failed_new_value, old_value) ==
    [ok |-> FALSE,
     error |-> [error |-> error, failed_new_value |-> failed_new_value,
                old_value |-> old_value]]

\* variant: a failed replacement puts the old spec back into the map
insert_occupied_keep_old(map, engine, rid, spec, bad) ==
    LET old == map[rid]
        unloaded == unload_templates(engine, old)
        r == load_templates(unloaded, spec, bad)
    IN  IF ~r.res.ok
        THEN [id2spec |-> MapInsert(map, rid, old),
              engine |-> r.engine,
              calls |-> <<"unload_templates", "load_templates">>,
              res |-> InsertionError(r.res.error, spec, Some(old))]
        ELSE [id2spec |-> MapInsert(map, rid, spec),
              engine |-> r.engine,
              calls |-> <<"unload_templates", "load_templates">>,
              res |-> [ok |-> TRUE, value |-> Some(old)]]

\* variant: the old spec is not unloaded
insert_occupied_no_unload(map, engine, rid, spec, bad) ==
    LET old == map[rid]
        r == load_templates(engine, spec, bad)
    IN  IF ~r.res.ok
        THEN [id2spec |-> MapRemove(MapInsert(map, rid, spec), rid),
              engine |-> r.engine,
              calls |-> <<"load_templates">>,
              res |-> InsertionError(r.res.error, spec, Some(old))]
        ELSE [id2spec |-> MapInsert(map, rid, spec),
              engine |-> r.engine,
              calls |-> <<"load_templates">>,
              res |-> [ok |-> TRUE, value |-> Some(old)]]

\* variant: the new spec is loaded before the old one is unloaded
insert_occupied_load_first(map, engine, rid, spec, bad) ==
    LET old == map[rid]
        r == load_templates(engine, spec, bad)
        unloaded == unload_templates(r.engine, old)
    IN  IF ~r.res.ok
        THEN [id2spec |-> MapRemove(MapInsert(map, rid, spec), rid),
              engine |-> unloaded,
              calls |-> <<"load_templates", "unload_templates">>,
              res |-> InsertionError(r.res.error, spec, Some(old))]
        ELSE [id2spec |-> MapInsert(map, rid, spec),
              engine |-> unloaded,
              calls |-> <<"load_templates", "unload_templates">>,
              res |-> [ok |-> TRUE, value |-> Some(old)]]

\* variant: a failed replacement loads the old spec again but leaves the id unbound
insert_occupied_reload_old(map, engine, rid, spec, bad) ==
    LET old == map[rid]
        unloaded == unload_templates(engine, old)
        r == load_templates(unloaded, spec, bad)
    IN  IF ~r.res.ok
        THEN [id2spec |-> MapRemove(map, rid),
              engine |-> load_templates(r.engine, old, {}).engine,
              calls |-> <<"unload_templates", "load_templates", "load_templates">>,
              res |-> InsertionError(r.res.error, spec, Some(old))]
        ELSE [id2spec |-> MapInsert(map, rid, spec),
              engine |-> r.engine,
              calls |-> <<"unload_templates", "load_templates">>,
              res |-> [ok |-> TRUE, value |-> Some(old)]]

\* insert_spec, Occupied(entry): the id is bound
insert_occupied(map, engine, rid, spec, bad) ==
    LET old == map[rid]                              \* entry.insert(spec)
        inserted == MapInsert(map, rid, spec)
        unloaded == unload_templates(engine, old)
        r == load_templates(unloaded, inserted[rid], bad)
    IN  IF ~r.res.ok
        THEN [id2spec |-> MapRemove(inserted, rid),  \* entry.remove_entry()
              engine |-> r.engine,
              calls |-> <<"unload_templates", "load_templates">>,
              res |-> InsertionError(r.res.error, inserted[rid], Some(old))]
        ELSE [id2spec |-> inserted,
              engine |-> r.engine,
              calls |-> <<"unload_templates", "load_templates">>,
              res |-> [ok |-> TRUE, value |-> Some(old)]]

\* variant: the spec is bound before it is loaded and stays bound on failure
insert_vacant_bind_first(map, engine, rid, spec, bad) ==
    LET r == load_templates(engine, spec, bad)
    IN  IF ~r.res.ok
        THEN [id2spec |-> MapInsert(map, rid, spec),
              engine |-> r.engine,
              calls |-> <<"load_templates">>,
              res |-> InsertionError(r.res.error, spec, None)]
        ELSE [id2spec |-> MapInsert(map, rid, spec),
              engine |-> r.engine,
              calls |-> <<"load_templates">>,
              res |-> [ok |-> TRUE, value |-> None]]

\* insert_spec, Vacant(entry): the id is not bound
insert_vacant(map, engine, rid, spec, bad) ==
    LET r == load_templates(engine, spec, bad)
    IN  IF ~r.res.ok
        THEN [id2spec |-> map,
              engine |-> r.engine,
              calls |-> <<"load_templates">>,
              res |-> InsertionError(r.res.error, spec, None)]
        ELSE [id2spec |-> MapInsert(map, rid, spec),  \* entry.insert(spec)
              engine |-> r.engine,
              calls |-> <<"load_templates">>,
              res |-> [ok |-> TRUE, value |-> None]]

\* RenderTemplateEngine::insert_spec
insert_spec(map, engine, rid, spec, bad) ==
    IF rid \in DOMAIN map
    THEN insert_occupied(map, engine, rid, spec, bad)
    ELSE insert_vacant(map, engine, rid, spec, bad)

\* variant: the spec is unloaded but its map entry is kept
remove_spec_keep_entry(map, engine, rid) ==
    IF rid \in DOMAIN map
    THEN [id2spec |-> map,
          engine |-> unload_templates(engine, map[rid]),
          calls |-> <<"unload_templates">>,
          res |-> Some(map[rid])]
    ELSE [id2spec |-> map, engine |-> engine, calls |-> <<>>, res |-> None]

\* variant: the entry is removed but the spec stays loaded
remove_spec_no_unload(map, engine, rid) ==
    IF rid \in DOMAIN map
    THEN [id2spec |-> MapRemove(map, rid), engine |-> engine,
          calls |-> <<>>, res |-> Some(map[rid])]
    ELSE [id2spec |-> map, engine |-> engine, calls |-> <<>>, res |-> None]

\* variant: the engine is asked to unload even when nothing was removed
remove_spec_unload_always(map, engine, rid) ==
    IF rid \in DOMAIN map
    THEN [id2spec |-> MapRemove(map, rid),
          engine |-> unload_templates(engine, map[rid]),
          calls |-> <<"unload_templates">>,
          res |-> Some(map[rid])]
    ELSE [id2spec |-> map, engine |-> engine,
          calls |-> <<"unload_templates">>, res |-> None]

\* RenderTemplateEngine::remove_spec
remove_spec(map, engine, rid) ==
    IF rid \in DOMAIN map
    THEN [id2spec |-> MapRemove(map, rid),
          engine |-> unload_templates(engine, map[rid]),
          calls |-> <<"unload_templates">>,
          res |-> Some(map[rid])]
    ELSE [id2spec |-> map, engine |-> engine, calls |-> <<>>, res |-> None]

\* RenderTemplateEngine::lookup_spec
lookup_spec(map, rid) == IF rid \in DOMAIN map THEN Some(map[rid]) ELSE None


\* ------------------------------------------------------------- rendering

\* EmbeddedWithCId::inline / EmbeddedWithCId::attachment: the context mints a
\* content id for the resource
EmbeddedWithCId(resource, disposition) ==
    [resource |-> resource, disposition |-> disposition,
     content_id |-> [cid |-> resource.iri]]

\* the values a caller passes to add_global_embedding
GlobalVersions == {"v1", "v2"}
GlobalEmbedding(name, version) ==
    EmbeddedWithCId(Resource("global", name, version), "inline")

\* create_embedding applied to every entry of a name -> Resource map
create_embeddings(resources) ==
    [n \in DOMAIN resources |-> EmbeddedWithCId(resources[n], "inline")]

\* the values of a map (HashMap::into_iter().map(|(_, v)| v), order unspecified)
Values(map) == { map[k] : k \in DOMAIN map }

\* AdditionalCIds::new
AdditionalCIds(additional_resources) ==
    [additional_resources |-> additional_resources]

\* EmbeddedWithCId::content_id
content_id(embedding) == embedding.content_id

\* variant: the layers are searched from the last one to the first
get_last_layer(cids, name) ==
    LET layers == cids.additional_resources
        having == { i \in DOMAIN layers : name \in DOMAIN layers[i] }
    IN  IF having = {} THEN None
        ELSE LET i == CHOOSE k \in having : \A j \in having : j <= k
             IN  Some(content_id(layers[i][name]))

\* AdditionalCIds::get: the loop over additional_resources returns at the
\* first layer that has the name
RECURSIVE get_loop(_, _, _)
get_loop(layers, i, name) ==
    IF i > Len(layers) THEN None
    ELSE IF name \in DOMAIN layers[i]
         THEN Some(content_id(layers[i][name]))
         ELSE get_loop(layers, i + 1, name)

get(cids, name) == get_loop(cids.additional_resources, 1, name)

\* m.iter().map(|(k, v)| (k, v.content_id())): the entries of one layer
RECURSIVE layer_entries(_, _)
layer_entries(layer, names) ==
    IF names = {} THEN <<>>
    ELSE LET n == CHOOSE k \in names : \A j \in names : k <= j
         IN  <<  <<n, content_id(layer[n])>>  >>
             \o layer_entries(layer, names \ {n})

\* additional_resources.iter().flat_map(..): the entries of all layers, the
\* first layer first
RECURSIVE flat_map(_, _)
flat_map(layers, i) ==
    IF i > Len(layers) THEN <<>>
    ELSE layer_entries(layers[i], DOMAIN layers[i]) \o flat_map(layers, i + 1)

\* .filter(|key| existing_keys.insert(key.to_owned())): key is the whole
\* (name, content id) entry, and an entry passes when it was not yet in the set
RECURSIVE filter_existing(_, _, _)
filter_existing(entries, i, existing_keys) ==
    IF i > Len(entries) THEN <<>>
    ELSE IF entries[i] \in existing_keys
         THEN filter_existing(entries, i + 1, existing_keys)
         ELSE <<entries[i]>>
              \o filter_existing(entries, i + 1, existing_keys \cup {entries[i]})

\* impl Serialize for AdditionalCIds: the entries handed to collect_map
serialize(cids) == filter_existing(flat_map(cids.additional_resources, 1), 1, {})

\* variant: the error does not name the id
unknown_template_id_error_anonymous(rid) ==
    [kind |-> "UnknownTemplateId", id |-> 0]

\* RenderEngineBase::unknown_template_id_error
unknown_template_id_error(rid) == [kind |-> "UnknownTemplateId", id |-> rid]

\* the text a template renders to; CR and LF stand for "\r" and "\n"
Texts ==
    << <<"a", "LF", "b">>, <<"a", "CR", "LF">>, <<"CR", "b">>, <<"LF", "CR">> >>
RenderOutput(t) == Texts[((t - 1) % Len(Texts)) + 1]

\* RenderEngine::render: looks the template up by the id of the source;
\* fails is the set of templates whose rendering fails
render(engine, sub_spec, additional_cids, fails) ==
    LET t == id(sub_spec.source)
    IN  IF t \notin engine
        THEN [ok |-> FALSE, error |-> [kind |-> "TemplateNotFound", id |-> t]]
        ELSE IF t \in fails
        THEN [ok |-> FALSE, error |-> [kind |-> "RenderError", id |-> t]]
        ELSE [ok |-> TRUE, value |-> RenderOutput(t)]

\* utils::fix_newlines: every line ending becomes CR LF
RECURSIVE fix_newlines_from(_, _)
fix_newlines_from(text, i) ==
    IF i > Len(text) THEN <<>>
    ELSE IF text[i] = "CR"
    THEN IF i < Len(text) /\ text[i + 1] = "LF"
         THEN <<"CR", "LF">> \o fix_newlines_from(text, i + 2)
         ELSE <<"CR", "LF">> \o fix_newlines_from(text, i + 1)
    ELSE IF text[i] = "LF"
    THEN <<"CR", "LF">> \o fix_newlines_from(text, i + 1)
    ELSE <<text[i]>> \o fix_newlines_from(text, i + 1)

fix_newlines_text(text) == fix_newlines_from(text, 1)

\* variant: the body carries no embeddings
render_body_no_embeddings(engine, sub_spec, shared_embeddings, globals, fix, fails) ==
    LET embeddings == create_embeddings(sub_spec.embeddings)
        additional_cids ==
            AdditionalCIds(<<embeddings, shared_embeddings, globals>>)
        rendered == render(engine, sub_spec, additional_cids, fails)
        call == [sub_spec |-> sub_spec, additional_cids |-> additional_cids]
    IN  IF ~rendered.ok
        THEN [ok |-> FALSE, error |-> rendered.error, call |-> call,
              minted |-> Values(embeddings)]
        ELSE [ok |-> TRUE,
              value |-> [resource |->
                            [media_type |-> sub_spec.media_type,
                             content |-> IF fix
                                         THEN fix_newlines_text(rendered.value)
                                         ELSE rendered.value],
                         embeddings |-> {}],
              call |-> call,
              minted |-> Values(embeddings)]

\* variant: the shared embeddings are looked up before the body's
render_body_shared_first(engine, sub_spec, shared_embeddings, globals, fix, fails) ==
    LET embeddings == create_embeddings(sub_spec.embeddings)
        additional_cids ==
            AdditionalCIds(<<shared_embeddings, embeddings, globals>>)
        rendered == render(engine, sub_spec, additional_cids, fails)
        call == [sub_spec |-> sub_spec, additional_cids |-> additional_cids]
    IN  IF ~rendered.ok
        THEN [ok |-> FALSE, error |-> rendered.error, call |-> call,
              minted |-> Values(embeddings)]
        ELSE [ok |-> TRUE,
              value |-> [resource |->
                            [media_type |-> sub_spec.media_type,
                             content |-> IF fix
                                         THEN fix_newlines_text(rendered.value)
                                         ELSE rendered.value],
                         embeddings |-> Values(embeddings)],
              call |-> call,
              minted |-> Values(embeddings)]

\* variant: a failed rendering yields an empty body instead of the error
render_body_swallow_error(engine, sub_spec, shared_embeddings, globals, fix, fails) ==
    LET embeddings == create_embeddings(sub_spec.embeddings)
        additional_cids ==
            AdditionalCIds(<<embeddings, shared_embeddings, globals>>)
        rendered == render(engine, sub_spec, additional_cids, fails)
        call == [sub_spec |-> sub_spec, additional_cids |-> additional_cids]
    IN  [ok |-> TRUE,
         value |-> [resource |->
                       [media_type |-> sub_spec.media_type,
                        content |-> IF ~rendered.ok THEN <<>>
                                    ELSE IF fix
                                    THEN fix_newlines_text(rendered.value)
                                    ELSE rendered.value],
                    embeddings |-> Values(embeddings)],
         call |-> call,
         minted |-> Values(embeddings)]

\* variant: the rendered text is returned as it is, whatever the flag
render_body_never_fix(engine, sub_spec, shared_embeddings, globals, fix, fails) ==
    LET embeddings == create_embeddings(sub_spec.embeddings)
        additional_cids ==
            AdditionalCIds(<<embeddings, shared_embeddings, globals>>)
        rendered == render(engine, sub_spec, additional_cids, fails)
        call == [sub_spec |-> sub_spec, additional_cids |-> additional_cids]
    IN  IF ~rendered.ok
        THEN [ok |-> FALSE, error |-> rendered.error, call |-> call,
              minted |-> Values(embeddings)]
        ELSE [ok |-> TRUE,
              value |-> [resource |->
                            [media_type |-> sub_spec.media_type,
                             content |-> rendered.value],
                         embeddings |-> Values(embeddings)],
              call |-> call,
              minted |-> Values(embeddings)]

\* the closure of use_template applied to one SubTemplateSpec
render_body(engine, sub_spec, shared_embeddings, globals, fix, fails) ==
    LET embeddings == create_embeddings(sub_spec.embeddings)
        additional_cids ==
            AdditionalCIds(<<embeddings, shared_embeddings, globals>>)
        rendered == render(engine, sub_spec, additional_cids, fails)
        call == [sub_spec |-> sub_spec, additional_cids |-> additional_cids]
    IN  IF ~rendered.ok
        THEN [ok |-> FALSE, error |-> rendered.error, call |-> call,
              minted |-> Values(embeddings)]
        ELSE [ok |-> TRUE,
              value |-> [resource |->
                            [media_type |-> sub_spec.media_type,
                             content |-> IF fix
                                         THEN fix_newlines_text(rendered.value)
                                         ELSE rendered.value],
                         embeddings |-> Values(embeddings)],
              call |-> call,
              minted |-> Values(embeddings)]

\* Vec1::try_mapped_ref: maps the SubTemplateSpecs in order, stops at the
\* first error
RECURSIVE try_mapped_ref(_, _, _, _, _, _, _, _, _, _)
try_mapped_ref(engine, subs, i, shared_embeddings, globals, fix, fails, bodies, calls, minted) ==
    IF i > Len(subs)
    THEN [ok |-> TRUE, value |-> bodies, calls |-> calls, minted |-> minted]
    ELSE LET r == render_body(engine, subs[i], shared_embeddings, globals,
                              fix, fails)
         IN  IF ~r.ok
             THEN [ok |-> FALSE, error |-> r.error,
                   calls |-> Append(calls, r.call),
                   minted |-> minted \cup r.minted]
             ELSE try_mapped_ref(engine, subs, i + 1, shared_embeddings,
                                 globals, fix, fails,
                                 Append(bodies, r.value),
                                 Append(calls, r.call),
                                 minted \cup r.minted)

\* RenderTemplateEngine::use_template
use_template(map, engine, globals, fix, rid, fails) ==
    IF rid \notin DOMAIN map
    THEN [res |-> [ok |-> FALSE, error |-> unknown_template_id_error(rid)],
          calls |-> <<>>, minted |-> {}]
    ELSE LET spec == map[rid]
             shared_embeddings == create_embeddings(spec.embeddings)
             bodies == try_mapped_ref(engine, sub_specs(spec), 1,
                                      shared_embeddings, globals, fix, fails,
                                      <<>>, <<>>, Values(shared_embeddings))
             attachments ==
                 [j \in DOMAIN spec.attachments |->
                     EmbeddedWithCId(spec.attachments[j], "attachment")]
         IN  IF ~bodies.ok
             THEN [res |-> [ok |-> FALSE, error |-> bodies.error],
                   calls |-> bodies.calls, minted |-> bodies.minted]
             ELSE [res |-> [ok |-> TRUE,
                            value |-> [alternative_bodies |-> bodies.value,
                                       shared_embeddings |-> Values(shared_embeddings),
                                       attachments |-> attachments]],
                   calls |-> bodies.calls,
                   minted |-> bodies.minted \cup Values(attachments)]

\* variant: returns the value just stored
add_global_embedding_returns_new(globals, name, value) ==
    [global_embeddings |-> MapInsert(globals, name, value),
     res |-> Some(value)]

\* RenderTemplateEngine::add_global_embedding
add_global_embedding(globals, name, value) ==
    [global_embeddings |-> MapInsert(globals, name, value),
     res |-> IF name \in DOMAIN globals THEN Some(globals[name]) ELSE None]

\* RenderTemplateEngine::remove_global_embedding
remove_global_embedding(globals, name) ==
    [global_embeddings |-> MapRemove(globals, name),
     res |-> IF name \in DOMAIN globals THEN Some(globals[name]) ELSE None]

\* ---------------------------------------------------------------- actions

\* no call is in progress and no result is pending
NoCall == [op |-> "none"]

\* RenderEngineBase::PRODUCES_VALID_NEWLINES of the Tera and Handlebars engines
PRODUCES_VALID_NEWLINES == FALSE

\* RenderTemplateEngine::new on an engine without templates
Init ==
    /\ id2spec = << >>
    /\ templates = {}
    /\ global_embeddings = << >>
    /\ fix_newlines = ~PRODUCES_VALID_NEWLINES
    /\ free_templates = {}
    /\ owned_spec = None
    /\ last = NoCall

InsertSpec ==
    /\ last = NoCall
    /\ \E rid \in RegIds, spec \in TemplateSpec, bad \in SUBSET TplIds :
        LET r == insert_spec(id2spec, templates, rid, spec, bad)
        IN  /\ id2spec' = r.id2spec
            /\ templates' = r.engine
            /\ last' = [op |-> "insert_spec", id |-> rid, spec |-> spec,
                        bad |-> bad, res |-> r.res, calls |-> r.calls,
                        pre_id2spec |-> id2spec, pre_templates |-> templates]
            /\ UNCHANGED <<global_embeddings, fix_newlines, free_templates, owned_spec>>

RemoveSpec ==
    /\ last = NoCall
    /\ \E rid \in RegIds :
        LET r == remove_spec(id2spec, templates, rid)
        IN  /\ id2spec' = r.id2spec
            /\ templates' = r.engine
            /\ last' = [op |-> "remove_spec", id |-> rid, res |-> r.res,
                        calls |-> r.calls,
                        pre_id2spec |-> id2spec, pre_templates |-> templates,
                        pre_global_embeddings |-> global_embeddings]
            /\ UNCHANGED <<global_embeddings, fix_newlines, free_templates, owned_spec>>

\* the call has returned: the caller takes the result and may call again
Return ==
    /\ last # NoCall
    /\ last' = NoCall
    /\ UNCHANGED <<id2spec, templates, global_embeddings, fix_newlines, free_templates, owned_spec>>

Next == InsertSpec \/ RemoveSpec \/ Return

Spec == Init /\ [][Next]_vars

\* ------------------------------------------- the render engine on its own
\* The engine is used directly; it may hold templates that no spec loaded
\* (free / preloaded templates).

EngineInit ==
    /\ id2spec = << >>
    /\ global_embeddings = << >>
    /\ fix_newlines = ~PRODUCES_VALID_NEWLINES
    /\ free_templates = {}
    /\ owned_spec = None
    /\ templates \in SUBSET TplIds
    /\ last = NoCall

LoadTemplates ==
    /\ last = NoCall
    /\ \E spec \in TemplateSpec, bad \in SUBSET TplIds :
        LET r == load_templates(templates, spec, bad)
        IN  /\ templates' = r.engine
            /\ last' = [op |-> "load_templates", spec |-> spec, bad |-> bad,
                        res |-> r.res, pre_templates |-> templates]
            /\ UNCHANGED <<id2spec, global_embeddings, fix_newlines, free_templates, owned_spec>>

UnloadTemplates ==
    /\ last = NoCall
    /\ \E spec \in TemplateSpec :
        /\ templates' = unload_templates(templates, spec)
        /\ last' = [op |-> "unload_templates", spec |-> spec,
                    pre_templates |-> templates]
        /\ UNCHANGED <<id2spec, global_embeddings, fix_newlines, free_templates, owned_spec>>

EngineNext == LoadTemplates \/ UnloadTemplates \/ Return

EngineSpec == EngineInit /\ [][EngineNext]_vars

\* ------------------------------------------- the registry used for rendering
\* Specs are inserted, removed and rendered, and the global embeddings and
\* the newline flag change.

\* insert_spec under an id that is not bound, of a spec whose templates can
\* all be added; the caller drops the result
LoadSpec ==
    /\ last = NoCall
    /\ \E rid \in RegIds \ DOMAIN id2spec, spec \in TemplateSpec :
        LET r == insert_spec(id2spec, templates, rid, spec, {})
        IN  /\ id2spec' = r.id2spec
            /\ templates' = r.engine
            /\ UNCHANGED <<global_embeddings, fix_newlines, free_templates, owned_spec, last>>

AddGlobalEmbedding ==
    /\ last = NoCall
    /\ \E name \in EmbNames, version \in GlobalVersions :
        LET r == add_global_embedding(global_embeddings, name,
                                      GlobalEmbedding(name, version))
        IN  /\ global_embeddings' = r.global_embeddings
            /\ last' = [op |-> "add_global_embedding", name |-> name,
                        value |-> GlobalEmbedding(name, version),
                        res |-> r.res, calls |-> <<>>,
                        pre_id2spec |-> id2spec, pre_templates |-> templates,
                        pre_global_embeddings |-> global_embeddings]
            /\ UNCHANGED <<id2spec, templates, fix_newlines, free_templates, owned_spec>>

RemoveGlobalEmbedding ==
    /\ last = NoCall
    /\ \E name \in EmbNames :
        LET r == remove_global_embedding(global_embeddings, name)
        IN  /\ global_embeddings' = r.global_embeddings
            /\ last' = [op |-> "remove_global_embedding", name |-> name,
                        res |-> r.res, calls |-> <<>>,
                        pre_id2spec |-> id2spec, pre_templates |-> templates,
                        pre_global_embeddings |-> global_embeddings]
            /\ UNCHANGED <<id2spec, templates, fix_newlines, free_templates, owned_spec>>

\* RenderTemplateEngine::set_fix_newlines
SetFixNewlines ==
    /\ last = NoCall
    /\ \E should_fix_newlines \in BOOLEAN :
        /\ fix_newlines' = should_fix_newlines
        /\ last' = [op |-> "set_fix_newlines",
                    should_fix_newlines |-> should_fix_newlines]
        /\ UNCHANGED <<id2spec, templates, global_embeddings, free_templates, owned_spec>>

\* the rendering stops at the first template that fails, so at most one
\* failing template is chosen
FailSets == {{}} \cup { {t} : t \in TplIds }

UseTemplate ==
    /\ last = NoCall
    /\ \E rid \in RegIds, fails \in FailSets :
        LET r == use_template(id2spec, templates, global_embeddings,
                              fix_newlines, rid, fails)
        IN  /\ last' = [op |-> "use_template", id |-> rid, fails |-> fails,
                        res |-> r.res, calls |-> r.calls, minted |-> r.minted]
            /\ UNCHANGED <<id2spec, templates, global_embeddings, fix_newlines, free_templates, owned_spec>>

RenderNext ==
    \/ LoadSpec \/ RemoveSpec \/ AddGlobalEmbedding \/ RemoveGlobalEmbedding
    \/ SetFixNewlines \/ UseTemplate \/ Return

RenderSpec == Init /\ [][RenderNext]_vars

(***************************************************************************)
(* AdditionalCIds on its own: get and serialize applied to every stack of  *)
(* at most NumLayers layers over the names and two content ids.            *)
(***************************************************************************)
\* use_template builds AdditionalCIds from three layers
NumLayers == 3

ContentIds == {"X", "Y"}

\* an embedding that already has its content id
CIdEmbedding(name, cid) ==
    [resource |-> Resource("layer", 0, name), content_id |-> cid,
     disposition |-> "inline"]

Layer ==
    UNION { { [n \in names |-> CIdEmbedding(n, f[n])] : f \in [names -> ContentIds] }
            : names \in SUBSET EmbNames }

LayerStacks == UNION { [1..k -> Layer] : k \in 0..NumLayers }

Get ==
    /\ last = NoCall
    /\ \E layers \in LayerStacks, name \in EmbNames :
          last' = [op |-> "get", layers |-> layers, name |-> name,
                   res |-> get(AdditionalCIds(layers), name)]
    /\ UNCHANGED <<id2spec, templates, global_embeddings, fix_newlines, free_templates, owned_spec>>

Serialize ==
    /\ last = NoCall
    /\ \E layers \in LayerStacks :
          last' = [op |-> "serialize", layers |-> layers,
                   res |-> serialize(AdditionalCIds(layers))]
    /\ UNCHANGED <<id2spec, templates, global_embeddings, fix_newlines, free_templates, owned_spec>>

CidNext == Get \/ Serialize \/ Return

CidSpec == Init /\ [][CidNext]_vars

(***************************************************************************)
(* TemplateSpec::from_dir.  The directory tree is the input: the listing   *)
(* of the base directory in read_dir order and the listing of the body     *)
(* directories.  A file name is the sequence of its parts, "." being a     *)
(* part of its own: logo.png is <<"logo", ".", "png">>.                    *)
(***************************************************************************)
\* the type descriptor of a body directory (settings::Type)
Type(suffixes, media_type) ==
    [template_base_name |-> <<"mail">>, suffixes |-> suffixes,
     media_type |-> media_type]

\* the configuration table: directory name -> (priority, type)
LoadSpecSettings ==
    [types |->
        (<<"text">> :> [prio |-> 1,
                        type |-> Type(<< <<".", "txt">>, <<".", "text">> >>, "text/plain")])
     @@ (<<"html">> :> [prio |-> 2,
                        type |-> Type(<< <<".", "html">>, <<".", "htm">> >>, "text/html")])
     @@ (<<"amp">>  :> [prio |-> 2,
                        type |-> Type(<< <<".", "html">>, <<".", "htm">> >>, "text/html")])]

\* LoadSpecSettings::get_type_with_priority
get_type_with_priority(settings, type_name) ==
    IF type_name \in DOMAIN settings.types
    THEN Some(settings.types[type_name])
    ELSE None

\* Type::to_media_type_for
to_media_type_for(type_, template_file) == type_.media_type

\* LoadSpecSettings::determine_media_type: by the last part of the file name
determine_media_type(settings, path) ==
    LET file_name == path[Len(path)]
    IN  [sniffed_from |-> file_name[Len(file_name)]]

\* a directory entry; file_type is "dir", "file" or "other" (neither a
\* directory nor a regular file)
DirEntry(file_name, file_type) == [file_name |-> file_name, file_type |-> file_type]

\* the entries a base directory can have
BaseEntries ==
    { DirEntry(<<"text">>, "dir"), DirEntry(<<"html">>, "dir"),
      DirEntry(<<"amp">>, "dir"), DirEntry(<<"other">>, "dir"),
      DirEntry(<<"portfolio", ".", "pdf">>, "file"),
      DirEntry(<<"portfolio", ".", "png">>, "file"),
      DirEntry(<<"fifo">>, "other") }

\* the entries a body directory can have: the template file with the first
\* and with the second suffix of the directory's type, two images of one
\* name, and an entry that is not a file
BodyEntries == {"template1", "template2", "logo.png", "logo.jpg", "fifo"}

\* the listings without repetition of at most n entries
Listings(entries, n) ==
    { l \in UNION { [1..k -> entries] : k \in 0..n } :
        \A i, j \in DOMAIN l : i # j => l[i] # l[j] }

MaxEntries == 3    \* maximal number of entries of the base directory
MaxFiles == 3      \* maximal number of entries of a body directory

\* the path from_dir is called with
BasePath == << <<"template_a">> >>

\* the directory trees: the base listing and the listing body directories have
FileSystems ==
    [base_path : {BasePath},
     entries : Listings(BaseEntries, MaxEntries),
     body : Listings(BodyEntries, MaxFiles)]

\* the entry of a body directory of the given type
BodyEntry(type_, e) ==
    CASE e = "template1" ->
            DirEntry(type_.template_base_name \o type_.suffixes[1], "file")
      [] e = "template2" ->
            DirEntry(type_.template_base_name \o type_.suffixes[2], "file")
      [] e = "logo.png" -> DirEntry(<<"logo", ".", "png">>, "file")
      [] e = "logo.jpg" -> DirEntry(<<"logo", ".", "jpg">>, "file")
      [] e = "fifo" -> DirEntry(<<"fifo">>, "other")

\* a listing of a body directory without its images
RECURSIVE WithoutImages(_)
WithoutImages(body) ==
    IF body = <<>> THEN <<>>
    ELSE IF body[1] \in {"logo.png", "logo.jpg"} THEN WithoutImages(Tail(body))
    ELSE <<body[1]>> \o WithoutImages(Tail(body))

\* Path::read_dir: the entries of a directory in listing order.  The text
\* directory holds no images.
read_dir(fs, path) ==
    IF path = fs.base_path THEN fs.entries
    ELSE LET dir == path[Len(path)]
             type_ == LoadSpecSettings.types[dir].type
             body == IF dir = <<"text">> THEN WithoutImages(fs.body) ELSE fs.body
         IN  [i \in DOMAIN body |-> BodyEntry(type_, body[i])]

\* DirEntry::path
entry_path(dir, entry) == Append(dir, entry.file_name)

\* the parent directory of a path
parent(path) == SubSeq(path, 1, Len(path) - 1)

\* Path::exists
exists(fs, path) ==
    \E i \in DOMAIN read_dir(fs, parent(path)) :
        read_dir(fs, parent(path))[i].file_name = path[Len(path)]

\* Path::is_file
is_file(fs, path) ==
    \E i \in DOMAIN read_dir(fs, parent(path)) :
        /\ read_dir(fs, parent(path))[i].file_name = path[Len(path)]
        /\ read_dir(fs, parent(path))[i].file_type = "file"

\* the errors of from_dir (CreatingSpecErrorVariant / LoadingSpecErrorVariant)
MissingTypeInfo(type_name) ==
    [ok |-> FALSE, error |-> [kind |-> "MissingTypeInfo", type_name |-> type_name]]
NotAFile(path) ==
    [ok |-> FALSE, error |-> [kind |-> "NotAFile", path |-> path]]
NoSubTemplatesFound(dir) ==
    [ok |-> FALSE, error |-> [kind |-> "NoSubTemplatesFound", dir |-> dir]]
TemplateFileMissing(dir) ==
    [ok |-> FALSE, error |-> [kind |-> "TemplateFileMissing", dir |-> dir]]
MultipleTemplateFiles(dir) ==
    [ok |-> FALSE, error |-> [kind |-> "MultipleTemplateFiles", dir |-> dir]]
DuplicateEmbeddingName(name) ==
    [ok |-> FALSE, error |-> [kind |-> "DuplicateEmbeddingName", name |-> name]]

\* let v = expr: the value of the one-element set { body(v) : v \in {expr} }
the(S) == CHOOSE v \in S : TRUE

\* variant: the name is what precedes the last "."
split_next_last(file_name, i) ==
    LET dots == { k \in DOMAIN file_name : file_name[k] = "." }
    IN  IF dots = {} THEN file_name
        ELSE SubSeq(file_name, 1, (CHOOSE k \in dots : \A j \in dots : j <= k) - 1)

\* file_name.split(".").next(): the parts before the first "."
RECURSIVE split_next(_, _)
split_next(file_name, i) ==
    IF i > Len(file_name) \/ file_name[i] = "." THEN <<>>
    ELSE <<file_name[i]>> \o split_next(file_name, i + 1)

\* Resource::new(Source { iri, use_name: None, use_media_type })
PathResource(path, media_type) ==
    [iri |-> <<"path", path>>, use_name |-> None,
     use_media_type |-> Some(media_type)]

\* embedding_from_path
embedding_from_path(fs, path, settings) ==
    IF ~is_file(fs, path) THEN NotAFile(path)
    ELSE [ok |-> TRUE,
          name |-> split_next(path[Len(path)], 1),
          resource |-> PathResource(path, determine_media_type(settings, path))]

\* is_template_file: the file name starts with "mail."
is_template_file(entry) ==
    /\ Len(entry.file_name) >= 2
    /\ entry.file_name[1] = "mail"
    /\ entry.file_name[2] = "."

\* variant: a second file of the same embedding name replaces the first
RECURSIVE find_files_replace(_, _, _, _, _, _)
find_files_replace(fs, in_dir, settings, i, template_file, other_files) ==
    LET listing == read_dir(fs, in_dir)
    IN  IF i > Len(listing)
        THEN IF template_file # None
             THEN [ok |-> TRUE, template_file |-> template_file[1],
                   other_files |-> other_files]
             ELSE TemplateFileMissing(in_dir)
        ELSE IF is_template_file(listing[i])
        THEN IF template_file = None
             THEN find_files_replace(fs, in_dir, settings, i + 1,
                                     Some(entry_path(in_dir, listing[i])), other_files)
             ELSE MultipleTemplateFiles(in_dir)
        ELSE LET e == embedding_from_path(fs, entry_path(in_dir, listing[i]), settings)
             IN  IF ~e.ok THEN e
                 ELSE find_files_replace(fs, in_dir, settings, i + 1, template_file,
                                         MapInsert(other_files, e.name, e.resource))

\* find_files (spec/from_dir.rs): the loop over the entries of the directory
\* and the check that follows it
RECURSIVE find_files(_, _, _, _, _, _)
find_files(fs, in_dir, settings, i, template_file, other_files) ==
    LET listing == read_dir(fs, in_dir)
    IN  IF i > Len(listing)
        THEN IF template_file # None
             THEN [ok |-> TRUE, template_file |-> template_file[1],
                   other_files |-> other_files]
             ELSE TemplateFileMissing(in_dir)
        ELSE IF is_template_file(listing[i])
        THEN IF template_file = None
             THEN find_files(fs, in_dir, settings, i + 1,
                             Some(entry_path(in_dir, listing[i])), other_files)
             ELSE MultipleTemplateFiles(in_dir)
        ELSE the({ IF ~e.ok THEN e
                   ELSE IF e.name \in DOMAIN other_files
                   THEN DuplicateEmbeddingName(e.name)
                   ELSE find_files(fs, in_dir, settings, i + 1, template_file,
                                   MapInsert(other_files, e.name, e.resource)) :
                   e \in {embedding_from_path(fs, entry_path(in_dir, listing[i]),
                                              settings)} })

\* SubTemplateSpec::new
NewSubTemplateSpec(path, media_type, embeddings) ==
    [media_type |-> media_type, source |-> path, embeddings |-> embeddings]

\* sub_template_from_dir (spec/from_dir.rs)
sub_template_from_dir(fs, dir, type_, settings) ==
    the({ IF ~found.ok THEN found
          ELSE [ok |-> TRUE,
                value |-> NewSubTemplateSpec(found.template_file,
                              to_media_type_for(type_, found.template_file),
                              found.other_files)] :
          found \in {find_files(fs, dir, settings, 1, None, <<>>)} })

\* find_template_file (from_dir.rs): the first suffix whose path exists
RECURSIVE find_template_file(_, _, _, _)
find_template_file(fs, dir, type_, i) ==
    IF i > Len(type_.suffixes) THEN TemplateFileMissing(dir)
    ELSE LET path == Append(dir, type_.template_base_name \o type_.suffixes[i])
         IN  IF exists(fs, path) THEN [ok |-> TRUE, value |-> path]
             ELSE find_template_file(fs, dir, type_, i + 1)

\* find_embeddings (from_dir.rs): every entry but the template file
RECURSIVE find_embeddings(_, _, _, _, _, _)
find_embeddings(fs, target_path, template_file, settings, i, embeddings) ==
    LET listing == read_dir(fs, target_path)
    IN  IF i > Len(listing) THEN [ok |-> TRUE, value |-> embeddings]
        ELSE IF entry_path(target_path, listing[i]) = template_file
        THEN find_embeddings(fs, target_path, template_file, settings, i + 1, embeddings)
        ELSE the({ IF ~e.ok THEN e
                   ELSE IF e.name \in DOMAIN embeddings
                   THEN DuplicateEmbeddingName(e.name)
                   ELSE find_embeddings(fs, target_path, template_file, settings, i + 1,
                                        MapInsert(embeddings, e.name, e.resource)) :
                   e \in {embedding_from_path(fs, entry_path(target_path, listing[i]),
                                              settings)} })

\* sub_template_from_dir (from_dir.rs)
lib_sub_template_from_dir(fs, dir, type_, settings) ==
    the({ IF ~template_file.ok THEN template_file
          ELSE the({ IF ~embeddings.ok THEN embeddings
                     ELSE [ok |-> TRUE,
                           value |-> NewSubTemplateSpec(template_file.value,
                                         to_media_type_for(type_, template_file.value),
                                         embeddings.value)] :
                     embeddings \in {find_embeddings(fs, dir, template_file.value,
                                                     settings, 1, <<>>)} }) :
          template_file \in {find_template_file(fs, dir, type_, 1)} })

\* variant: a subdirectory without type is skipped
RECURSIVE first_pass_skip_unknown(_, _, _, _, _)
first_pass_skip_unknown(fs, settings, i, glob_embeddings, sub_template_dirs) ==
    LET listing == read_dir(fs, fs.base_path)
    IN  IF i > Len(listing)
        THEN [ok |-> TRUE, glob_embeddings |-> glob_embeddings,
              sub_template_dirs |-> sub_template_dirs]
        ELSE IF listing[i].file_type = "dir"
        THEN LET found == get_type_with_priority(settings, listing[i].file_name)
             IN  IF found = None
                 THEN first_pass_skip_unknown(fs, settings, i + 1, glob_embeddings,
                                              sub_template_dirs)
                 ELSE first_pass_skip_unknown(fs, settings, i + 1, glob_embeddings,
                          Append(sub_template_dirs,
                                 [prio |-> found[1].prio,
                                  path |-> entry_path(fs.base_path, listing[i]),
                                  type_ |-> found[1].type]))
        ELSE LET e == embedding_from_path(fs, entry_path(fs.base_path, listing[i]), settings)
             IN  IF ~e.ok THEN e
                 ELSE first_pass_skip_unknown(fs, settings, i + 1,
                          MapInsert(glob_embeddings, e.name, e.resource),
                          sub_template_dirs)

\* from_dir, the loop over base_path.read_dir(): a directory is looked up in
\* the settings, anything else becomes a shared embedding
RECURSIVE first_pass(_, _, _, _, _)
first_pass(fs, settings, i, glob_embeddings, sub_template_dirs) ==
    LET listing == read_dir(fs, fs.base_path)
    IN  IF i > Len(listing)
        THEN [ok |-> TRUE, glob_embeddings |-> glob_embeddings,
              sub_template_dirs |-> sub_template_dirs]
        ELSE IF listing[i].file_type = "dir"
        THEN LET found == get_type_with_priority(settings, listing[i].file_name)
             IN  IF found = None
                 THEN MissingTypeInfo(listing[i].file_name)
                 ELSE first_pass(fs, settings, i + 1, glob_embeddings,
                          Append(sub_template_dirs,
                                 [prio |-> found[1].prio,
                                  path |-> entry_path(fs.base_path, listing[i]),
                                  type_ |-> found[1].type]))
        ELSE the({ IF ~e.ok THEN e
                   ELSE first_pass(fs, settings, i + 1,
                            \* glob_embeddings.insert(name, resource_spec)
                            MapInsert(glob_embeddings, e.name, e.resource),
                            sub_template_dirs) :
                   e \in {embedding_from_path(fs, entry_path(fs.base_path, listing[i]),
                                              settings)} })

\* the element is put behind the elements whose priority is not greater
RECURSIVE sorted_insert(_, _)
sorted_insert(sorted, data) ==
    IF sorted = <<>> THEN <<data>>
    ELSE IF sorted[Len(sorted)].prio <= data.prio THEN Append(sorted, data)
    ELSE Append(sorted_insert(SubSeq(sorted, 1, Len(sorted) - 1), data),
                sorted[Len(sorted)])

\* variant: an element is put before the elements of its priority
RECURSIVE sort_by_key_unstable(_, _, _)
sort_by_key_unstable(dirs, i, sorted) ==
    IF i > Len(dirs) THEN sorted
    ELSE LET smaller == SelectSeq(sorted, LAMBDA d : d.prio < dirs[i].prio)
             others == SelectSeq(sorted, LAMBDA d : d.prio >= dirs[i].prio)
         IN  sort_by_key_unstable(dirs, i + 1, smaller \o <<dirs[i]>> \o others)

\* variant: the subdirectories stay in listing order
sort_by_key_listing_order(dirs, i, sorted) == dirs

\* sub_template_dirs.sort_by_key(|data| data.0): a stable sort
RECURSIVE sort_by_key(_, _, _)
sort_by_key(dirs, i, sorted) ==
    IF i > Len(dirs) THEN sorted
    ELSE sort_by_key(dirs, i + 1, sorted_insert(sorted, dirs[i]))

\* from_dir, the loop over the sorted sub_template_dirs; crate names the
\* source file whose sub_template_from_dir is called
RECURSIVE second_pass(_, _, _, _, _, _)
second_pass(crate, fs, settings, dirs, i, sub_specs_) ==
    IF i > Len(dirs) THEN [ok |-> TRUE, value |-> sub_specs_]
    ELSE the({ IF ~sub.ok THEN sub
               ELSE second_pass(crate, fs, settings, dirs, i + 1,
                                Append(sub_specs_, sub.value)) :
               sub \in {IF crate = "spec/from_dir.rs"
                        THEN sub_template_from_dir(fs, dirs[i].path, dirs[i].type_,
                                                   settings)
                        ELSE lib_sub_template_from_dir(fs, dirs[i].path, dirs[i].type_,
                                                       settings)} })

\* variant: the spec does not keep the base path
new_without_base_path(subs, embeddings, base_path) ==
    [base_path |-> None, templates |-> subs,
     embeddings |-> embeddings, attachments |-> <<>>]

\* TemplateSpec::new_with_embeddings_and_base_path
new_with_embeddings_and_base_path(subs, embeddings, base_path) ==
    [base_path |-> Some(base_path), templates |-> subs,
     embeddings |-> embeddings, attachments |-> <<>>]

\* variant: the order of the sub-specs depends on the hasher
compile_by_hasher(crate, fs, settings, hasher) ==
    LET first == first_pass(fs, settings, 1, <<>>, <<>>)
    IN  IF ~first.ok THEN first
        ELSE LET sorted == sort_by_key(first.sub_template_dirs, 1, <<>>)
                 dirs == IF hasher = 1 THEN sorted
                         ELSE [i \in DOMAIN sorted |-> sorted[Len(sorted) + 1 - i]]
                 subs == second_pass(crate, fs, settings, dirs, 1, <<>>)
             IN  IF ~subs.ok THEN subs
                 ELSE IF subs.value = <<>> THEN NoSubTemplatesFound(fs.base_path)
                 ELSE [ok |-> TRUE,
                       value |-> new_with_embeddings_and_base_path(
                                     subs.value, first.glob_embeddings, fs.base_path)]

\* variant: a base directory without sub-templates gives a spec without
\* sub-specs
compile_allow_empty(crate, fs, settings, hasher) ==
    LET first == first_pass(fs, settings, 1, <<>>, <<>>)
    IN  IF ~first.ok THEN first
        ELSE LET dirs == sort_by_key(first.sub_template_dirs, 1, <<>>)
                 subs == second_pass(crate, fs, settings, dirs, 1, <<>>)
             IN  IF ~subs.ok THEN subs
                 ELSE [ok |-> TRUE,
                       value |-> new_with_embeddings_and_base_path(
                                     subs.value, first.glob_embeddings, fs.base_path)]

\* from_dir of either source file.  hasher is the random state of the
\* HashMaps the call creates; no step iterates over a map.
compile(crate, fs, settings, hasher) ==
    the({ IF ~first.ok THEN first
          ELSE the({ IF ~subs.ok THEN subs
                     \* Vec1::from_vec fails on an empty vector
                     ELSE IF subs.value = <<>> THEN NoSubTemplatesFound(fs.base_path)
                     ELSE [ok |-> TRUE,
                           value |-> new_with_embeddings_and_base_path(
                                         subs.value, first.glob_embeddings,
                                         fs.base_path)] :
                     subs \in {second_pass(crate, fs, settings,
                                   sort_by_key(first.sub_template_dirs, 1, <<>>),
                                   1, <<>>)} }) :
          first \in {first_pass(fs, settings, 1, <<>>, <<>>)} })

\* from_dir (spec/from_dir.rs)
from_dir(fs, settings, hasher) == compile("spec/from_dir.rs", fs, settings, hasher)

\* from_dir (from_dir.rs)
lib_from_dir(fs, settings, hasher) == compile("from_dir.rs", fs, settings, hasher)

\* the random states a HashMap can be created with
Hashers == {1, 2}

FromDir ==
    /\ last = NoCall
    /\ \E fs \in FileSystems, hasher \in Hashers :
          last' = [op |-> "from_dir", crate |-> "spec/from_dir.rs", fs |-> fs,
                   res |-> from_dir(fs, LoadSpecSettings, hasher)]
    /\ UNCHANGED <<id2spec, templates, global_embeddings, fix_newlines, free_templates, owned_spec>>

LibFromDir ==
    /\ last = NoCall
    /\ \E fs \in FileSystems, hasher \in Hashers :
          last' = [op |-> "from_dir", crate |-> "from_dir.rs", fs |-> fs,
                   res |-> lib_from_dir(fs, LoadSpecSettings, hasher)]
    /\ UNCHANGED <<id2spec, templates, global_embeddings, fix_newlines, free_templates, owned_spec>>

\* file names embedding_from_path is applied to
SampleFileNames ==
    { <<"this", ".", "is", ".", "a">>, <<"logo", ".", "png">>,
      <<".", "hidden">>, <<"README">>, <<"archive", ".", "tar", ".", "gz">>,
      <<".">>, <<"a", ".">> }

EmbeddingFromPath ==
    /\ last = NoCall
    /\ \E file_name \in SampleFileNames, file_type \in {"file", "other"} :
          LET fs == [base_path |-> BasePath,
                     entries |-> <<DirEntry(file_name, file_type)>>,
                     body |-> <<>>]
              path == Append(BasePath, file_name)
          IN  last' = [op |-> "embedding_from_path", fs |-> fs, path |-> path,
                       res |-> embedding_from_path(fs, path, LoadSpecSettings),
                       spec |-> from_dir(
                                  [fs EXCEPT !.entries =
                                      <<DirEntry(<<"html">>, "dir")>> \o @,
                                      !.body = <<"template1">>],
                                  LoadSpecSettings, 1)]
    /\ UNCHANGED <<id2spec, templates, global_embeddings, fix_newlines, free_templates, owned_spec>>

DirNext == FromDir \/ LibFromDir \/ EmbeddingFromPath \/ Return

DirSpec == Init /\ [][DirNext]_vars

(***************************************************************************)
(* A TemplateSpec in the hands of its owner: built by from_dir and changed *)
(* through the public mutators.  templates is a Vec1, which sub_specs_mut  *)
(* hands out; its operations are those of the vec1 crate.                  *)
(***************************************************************************)
\* Vec1::push
push(vec, value) == Append(vec, value)

\* Size0Error of the vec1 crate
Size0Error == [ok |-> FALSE, error |-> [kind |-> "Size0Error"]]

\* variant: Vec::pop, the last element can be taken as well
pop_unchecked(vec) ==
    [ok |-> TRUE, vec |-> SubSeq(vec, 1, Len(vec) - 1), value |-> vec[Len(vec)]]

\* Vec1::try_pop: fails on a vector of one element
try_pop(vec) ==
    IF Len(vec) = 1 THEN Size0Error
    ELSE [ok |-> TRUE, vec |-> SubSeq(vec, 1, Len(vec) - 1), value |-> vec[Len(vec)]]

\* Vec1::try_truncate: fails for the length 0
try_truncate(vec, len) ==
    IF len = 0 THEN Size0Error
    ELSE [ok |-> TRUE, vec |-> SubSeq(vec, 1, IF len < Len(vec) THEN len ELSE Len(vec))]

\* TemplateSpec::set_base_path: returns the path it replaces
set_base_path(spec, new_path) ==
    [spec |-> [spec EXCEPT !.base_path = Some(new_path)],
     res |-> [ok |-> TRUE, value |-> spec.base_path]]

\* SubTemplateSpec::set_source: returns the source it replaces
set_source(sub, source) ==
    [sub |-> [sub EXCEPT !.source = source], res |-> sub.source]

\* SubTemplateSpec::set_media_type: returns the media type it replaces
set_media_type(sub, media_type) ==
    [sub |-> [sub EXCEPT !.media_type = media_type], res |-> sub.media_type]

\* the directory trees the owned spec is built from
OwnedTrees ==
    { fs \in FileSystems :
        /\ fs.body = <<"template1">>
        /\ \A i \in DOMAIN fs.entries :
              fs.entries[i].file_name \in { <<"text">>, <<"html">>,
                                            <<"portfolio", ".", "pdf">> } }

\* the path the owner passes to the mutators
OtherPath == << <<"elsewhere">>, <<"mail", ".", "txt">> >>

\* TemplateSpec::from_dir by the owner
OwnedFromDir ==
    /\ owned_spec = None
    /\ \E fs \in OwnedTrees :
          LET r == from_dir(fs, LoadSpecSettings, 1)
          IN  owned_spec' = IF r.ok THEN Some(r.value) ELSE None
    /\ UNCHANGED <<id2spec, templates, global_embeddings, fix_newlines,
                   free_templates, last>>

\* the owner drops the spec
OwnedDrop ==
    /\ owned_spec # None
    /\ owned_spec' = None
    /\ UNCHANGED <<id2spec, templates, global_embeddings, fix_newlines,
                   free_templates, last>>

\* the owned spec with its Vec1 replaced by the outcome of a Vec1 operation
WithSubSpecs(spec, r) == IF r.ok THEN [spec EXCEPT !.templates = r.vec] ELSE spec

\* sub_specs_mut(): push, try_pop and try_truncate on the Vec1
SubSpecsMut ==
    /\ owned_spec # None
    /\ \/ /\ Len(owned_spec[1].templates) <= MaxSubs
          /\ owned_spec' = Some([owned_spec[1] EXCEPT
                                    !.templates = push(@, NewSubTemplateSpec(OtherPath, "text/plain", <<>>))])
       \/ owned_spec' = Some(WithSubSpecs(owned_spec[1],
                                          try_pop(owned_spec[1].templates)))
       \/ \E len \in 0..MaxSubs :
             owned_spec' = Some(WithSubSpecs(owned_spec[1],
                                   try_truncate(owned_spec[1].templates, len)))
    /\ UNCHANGED <<id2spec, templates, global_embeddings, fix_newlines,
                   free_templates, last>>

\* sub_specs_mut()[i].set_source / set_media_type
SubSpecMut ==
    /\ owned_spec # None
    /\ \E i \in DOMAIN owned_spec[1].templates :
          \/ owned_spec' = Some([owned_spec[1] EXCEPT
                !.templates[i] = set_source(@, OtherPath).sub])
          \/ \E media_type \in MediaTypes :
                owned_spec' = Some([owned_spec[1] EXCEPT
                    !.templates[i] = set_media_type(@, media_type).sub])
    /\ UNCHANGED <<id2spec, templates, global_embeddings, fix_newlines,
                   free_templates, last>>

\* embeddings_mut(): insert, remove and clear on the HashMap
EmbeddingsMut ==
    /\ owned_spec # None
    /\ \/ owned_spec' = Some([owned_spec[1] EXCEPT
                !.embeddings = MapInsert(@, <<"other">>,
                                         PathResource(OtherPath, [sniffed_from |-> "txt"]))])
       \/ \E name \in DOMAIN owned_spec[1].embeddings :
             owned_spec' = Some([owned_spec[1] EXCEPT
                !.embeddings = MapRemove(@, name)])
       \/ owned_spec' = Some([owned_spec[1] EXCEPT !.embeddings = << >>])
    /\ UNCHANGED <<id2spec, templates, global_embeddings, fix_newlines,
                   free_templates, last>>

\* attachments_mut(): push and clear on the Vec
AttachmentsMut ==
    /\ owned_spec # None
    /\ \/ /\ owned_spec[1].attachments = <<>>
          /\ owned_spec' = Some([owned_spec[1] EXCEPT
                !.attachments = Append(@, PathResource(OtherPath, [sniffed_from |-> "txt"]))])
       \/ owned_spec' = Some([owned_spec[1] EXCEPT !.attachments = <<>>])
    /\ UNCHANGED <<id2spec, templates, global_embeddings, fix_newlines,
                   free_templates, last>>

\* set_base_path
SetBasePath ==
    /\ owned_spec # None
    /\ \E new_path \in {BasePath, << <<"elsewhere">> >>} :
          owned_spec' = Some(set_base_path(owned_spec[1], new_path).spec)
    /\ UNCHANGED <<id2spec, templates, global_embeddings, fix_newlines,
                   free_templates, last>>

OwnedNext ==
    \/ OwnedFromDir \/ OwnedDrop \/ SubSpecsMut \/ SubSpecMut
    \/ EmbeddingsMut \/ AttachmentsMut \/ SetBasePath

OwnedSpec == Init /\ [][OwnedNext]_vars

(***************************************************************************)
(* HandlebarsRenderEngine { handlebars, free_templates }.  The Handlebars  *)
(* registry maps a name to the template registered under it; templates is  *)
(* that map here.  A template is free when it was registered through       *)
(* register_free_template_* or came with the Handlebars instance the       *)
(* engine was made from, and non-free when load_templates registered it.   *)
(***************************************************************************)
\* the template a register_free_template_* call registers
FreeTemplate(tpl) == [kind |-> "free", tpl |-> tpl]

\* the template load_templates registers for the sub-template tid
SpecTemplate(tid) == [kind |-> "spec", tpl |-> tid]

FreeTemplateIdCollision(col_id) ==
    [ok |-> FALSE, error |-> [kind |-> "FreeTemplateIdCollision", id |-> col_id]]

\* Handlebars::get_template(name).is_some()
has_template(hbs, name) == name \in DOMAIN hbs

\* Handlebars::unregister_template
unregister_template(hbs, name) == MapRemove(hbs, name)

\* Handlebars::register_template_string / register_template_file /
\* register_partial: adds the template or overwrites the one of that name
register_template(hbs, name, template) == MapInsert(hbs, name, template)

\* impl From<Handlebars> for HandlebarsRenderEngine
From(handlebars) ==
    [handlebars |-> handlebars, free_templates |-> DOMAIN handlebars]

\* check_new_free_template_name
check_new_free_template_name(engine, name) ==
    IF name \notin engine.free_templates /\ has_template(engine.handlebars, name)
    THEN FreeTemplateIdCollision(name)
    ELSE Ok

\* insert_free_template; fails: insert_fn returns an error (the template
\* does not parse, the file cannot be read)
insert_free_template(engine, name, template, fails) ==
    IF ~check_new_free_template_name(engine, name).ok
    THEN [engine |-> engine, res |-> check_new_free_template_name(engine, name)]
    ELSE IF fails
    THEN [engine |-> engine, res |-> AddError(name)]
    ELSE [engine |-> [handlebars |-> register_template(engine.handlebars, name, template),
                      free_templates |-> engine.free_templates \cup {name}],
          res |-> Ok]

\* register_free_template_string / register_free_partial /
\* register_free_template_file / register_template_source
register_free_template(engine, name, tpl, fails) ==
    insert_free_template(engine, name, FreeTemplate(tpl), fails)

\* unregister_free_template
unregister_free_template(engine, name) ==
    IF name \in engine.free_templates
    THEN [engine EXCEPT !.handlebars = unregister_template(@, name)]
    ELSE engine

\* clear_free_templates: free_templates.drain() and unregister_template of
\* every id drained
clear_free_templates(engine) ==
    [handlebars |-> [name \in DOMAIN engine.handlebars \ engine.free_templates |->
                        engine.handlebars[name]],
     free_templates |-> {}]

\* error_cleanup with the remove_fn of the Handlebars engine
RECURSIVE hbs_error_cleanup(_, _, _)
hbs_error_cleanup(hbs, added_names, i) ==
    IF i > Len(added_names) THEN hbs
    ELSE hbs_error_cleanup(unregister_template(hbs, added_names[i]), added_names, i + 1)

\* variant: no collision check, the template of that name is overwritten
hbs_try_add_overwrite(hbs, tid, loaded, bad) ==
    IF tid \in bad
    THEN [engine |-> hbs_error_cleanup(hbs, loaded, 1), loaded |-> loaded,
          res |-> AddError(tid)]
    ELSE [engine |-> register_template(hbs, tid, SpecTemplate(tid)),
          loaded |-> Append(loaded, tid), res |-> Ok]

\* try_add_sub_template with has_template_fn, add_file_fn and add_content_fn
\* of the Handlebars engine
hbs_try_add_sub_template(hbs, tid, loaded, bad) ==
    IF has_template(hbs, tid)
    THEN [engine |-> hbs_error_cleanup(hbs, loaded, 1), loaded |-> loaded,
          res |-> TemplateIdCollision(tid)]
    ELSE IF tid \in bad
    THEN [engine |-> hbs_error_cleanup(hbs, loaded, 1), loaded |-> loaded,
          res |-> AddError(tid)]
    ELSE [engine |-> register_template(hbs, tid, SpecTemplate(tid)),
          loaded |-> Append(loaded, tid), res |-> Ok]

RECURSIVE hbs_load_loop(_, _, _, _, _)
hbs_load_loop(hbs, spec, i, loaded, bad) ==
    IF i > Len(sub_specs(spec))
    THEN [engine |-> hbs, res |-> Ok]
    ELSE the({ IF r.res.ok THEN hbs_load_loop(r.engine, spec, i + 1, r.loaded, bad)
               ELSE [engine |-> r.engine, res |-> r.res] :
               r \in {hbs_try_add_sub_template(hbs, id(sub_specs(spec)[i].source),
                                               loaded, bad)} })

\* HandlebarsRenderEngine::load_templates
hbs_load_templates(hbs, spec, bad) == hbs_load_loop(hbs, spec, 1, <<>>, bad)

\* HandlebarsRenderEngine::unload_templates
RECURSIVE hbs_unload_templates(_, _, _)
hbs_unload_templates(hbs, spec, i) ==
    IF i > Len(sub_specs(spec)) THEN hbs
    ELSE hbs_unload_templates(unregister_template(hbs, id(sub_specs(spec)[i].source)),
                              spec, i + 1)

\* the engine made from a Handlebars instance that holds some templates
HbsInit ==
    /\ id2spec = << >>
    /\ global_embeddings = << >>
    /\ fix_newlines = ~PRODUCES_VALID_NEWLINES
    /\ owned_spec = None
    /\ \E names \in SUBSET TplIds :
          /\ templates = From([name \in names |-> FreeTemplate("v1")]).handlebars
          /\ free_templates = From([name \in names |-> FreeTemplate("v1")]).free_templates
    /\ last = NoCall

HbsLoadTemplates ==
    /\ last = NoCall
    /\ \E spec \in TemplateSpec, bad \in FailSets :
          LET r == hbs_load_templates(templates, spec, bad)
          IN  /\ templates' = r.engine
              /\ last' = [op |-> "load_templates", spec |-> spec, bad |-> bad,
                          res |-> r.res, pre_templates |-> templates,
                          pre_free_templates |-> free_templates]
    /\ UNCHANGED <<id2spec, global_embeddings, fix_newlines, free_templates,
                   owned_spec>>

HbsUnloadTemplates ==
    /\ last = NoCall
    /\ \E spec \in TemplateSpec :
          /\ templates' = hbs_unload_templates(templates, spec, 1)
          /\ last' = [op |-> "unload_templates", spec |-> spec,
                      pre_templates |-> templates,
                      pre_free_templates |-> free_templates]
    /\ UNCHANGED <<id2spec, global_embeddings, fix_newlines, free_templates,
                   owned_spec>>

RegisterFreeTemplate ==
    /\ last = NoCall
    /\ \E name \in TplIds, tpl \in {"v1", "v2"}, fails \in BOOLEAN :
          LET r == register_free_template(
                       [handlebars |-> templates, free_templates |-> free_templates],
                       name, tpl, fails)
          IN  /\ templates' = r.engine.handlebars
              /\ free_templates' = r.engine.free_templates
              /\ last' = [op |-> "register_free_template", name |-> name,
                          tpl |-> tpl, fails |-> fails, res |-> r.res,
                          pre_templates |-> templates,
                          pre_free_templates |-> free_templates]
    /\ UNCHANGED <<id2spec, global_embeddings, fix_newlines, owned_spec>>

UnregisterFreeTemplate ==
    /\ last = NoCall
    /\ \E name \in TplIds :
          LET engine == unregister_free_template(
                       [handlebars |-> templates, free_templates |-> free_templates],
                       name)
          IN  /\ templates' = engine.handlebars
              /\ free_templates' = engine.free_templates
              /\ last' = [op |-> "unregister_free_template", name |-> name,
                          pre_templates |-> templates,
                          pre_free_templates |-> free_templates]
    /\ UNCHANGED <<id2spec, global_embeddings, fix_newlines, owned_spec>>

ClearFreeTemplates ==
    /\ last = NoCall
    /\ LET engine == clear_free_templates(
                       [handlebars |-> templates, free_templates |-> free_templates])
       IN  /\ templates' = engine.handlebars
           /\ free_templates' = engine.free_templates
           /\ last' = [op |-> "clear_free_templates",
                       pre_templates |-> templates,
                       pre_free_templates |-> free_templates]
    /\ UNCHANGED <<id2spec, global_embeddings, fix_newlines, owned_spec>>

HbsNext ==
    \/ HbsLoadTemplates \/ HbsUnloadTemplates \/ RegisterFreeTemplate
    \/ UnregisterFreeTemplate \/ ClearFreeTemplates \/ Return

HbsSpec == HbsInit /\ [][HbsNext]_vars

(***************************************************************************)
(* RenderTemplateEngine of lib.rs: id2spec is filled from a directory of   *)
(* template directories, one spec per subdirectory, bound under the name   *)
(* of the subdirectory.  The names of the subdirectories are the registry  *)
(* ids.                                                                    *)
(***************************************************************************)
\* LoadingSpecErrorVariant::AccidentalSpecOverride
AccidentalSpecOverride(spec_id) ==
    [ok |-> FALSE, error |-> [kind |-> "AccidentalSpecOverride", id |-> spec_id]]

\* RenderTemplateEngine::add_spec (lib.rs): HashMap::insert, returns the
\* spec that was bound
add_spec(map, spec_id, spec) ==
    [id2spec |-> MapInsert(map, spec_id, spec),
     res |-> IF spec_id \in DOMAIN map THEN Some(map[spec_id]) ELSE None]

\* RenderTemplateEngine::remove_spec (lib.rs): HashMap::remove
lib_remove_spec(map, spec_id) ==
    [id2spec |-> MapRemove(map, spec_id),
     res |-> IF spec_id \in DOMAIN map THEN Some(map[spec_id]) ELSE None]

\* the path load_specs_from_dir is called with
TemplatesDir == << <<"templates">> >>

\* what a template directory can hold: a text body, an html body next to a
\* shared file, or nothing
TemplateTrees ==
    { [entries |-> << DirEntry(<<"text">>, "dir") >>, body |-> <<"template1">>],
      [entries |-> << DirEntry(<<"html">>, "dir"),
                      DirEntry(<<"portfolio", ".", "pdf">>, "file") >>,
       body |-> <<"template1">>],
      [entries |-> << >>, body |-> << >>] }

\* the listings of the directory of template directories: each entry is a
\* template directory or a regular file, named by a registry id, and no two
\* entries have the same name
TemplatesDirListings ==
    LET entries ==
            { [file_name |-> spec_id, file_type |-> "dir", tree |-> tree] :
                  spec_id \in RegIds, tree \in TemplateTrees }
            \cup { [file_name |-> spec_id, file_type |-> "file",
                    tree |-> [entries |-> << >>, body |-> << >>]] : spec_id \in RegIds }
    IN  { l \in UNION { [1..k -> entries] : k \in 0..NumRegIds } :
            \A i, j \in DOMAIN l : i # j => l[i].file_name # l[j].file_name }

\* TemplateSpec::from_dir(entry.path(), settings)
from_dir_of_entry(dir_path, entry, settings) ==
    lib_from_dir([base_path |-> Append(dir_path, <<entry.file_name>>),
                  entries |-> entry.tree.entries, body |-> entry.tree.body],
                 settings, 1)

\* variant: the binding is looked at before add_spec and kept on an override
RECURSIVE load_specs_check_first(_, _, _, _, _, _)
load_specs_check_first(map, dir_path, listing, settings, allow_override, i) ==
    IF i > Len(listing) THEN [id2spec |-> map, res |-> Ok]
    ELSE IF listing[i].file_type # "dir"
    THEN load_specs_check_first(map, dir_path, listing, settings, allow_override, i + 1)
    ELSE the({ IF ~spec.ok THEN [id2spec |-> map, res |-> spec]
               ELSE IF listing[i].file_name \in DOMAIN map /\ ~allow_override
               THEN [id2spec |-> map,
                     res |-> AccidentalSpecOverride(listing[i].file_name)]
               ELSE load_specs_check_first(
                        add_spec(map, listing[i].file_name, spec.value).id2spec,
                        dir_path, listing, settings, allow_override, i + 1) :
               spec \in {from_dir_of_entry(dir_path, listing[i], settings)} })

\* _load_specs_from_dir: every subdirectory is compiled and bound under its
\* name; a file is passed over
RECURSIVE _load_specs_from_dir(_, _, _, _, _, _)
_load_specs_from_dir(map, dir_path, listing, settings, allow_override, i) ==
    IF i > Len(listing) THEN [id2spec |-> map, res |-> Ok]
    ELSE IF listing[i].file_type # "dir"
    THEN _load_specs_from_dir(map, dir_path, listing, settings, allow_override, i + 1)
    ELSE the({ IF ~spec.ok THEN [id2spec |-> map, res |-> spec]
               ELSE the({ IF old.res # None /\ ~allow_override
                          THEN [id2spec |-> old.id2spec,
                                res |-> AccidentalSpecOverride(listing[i].file_name)]
                          ELSE _load_specs_from_dir(old.id2spec, dir_path, listing,
                                                    settings, allow_override, i + 1) :
                          old \in {add_spec(map, listing[i].file_name, spec.value)} }) :
               spec \in {from_dir_of_entry(dir_path, listing[i], settings)} })

\* load_specs_from_dir
load_specs_from_dir(map, dir_path, listing, settings) ==
    _load_specs_from_dir(map, dir_path, listing, settings, FALSE, 1)

\* load_specs_from_dir_allow_override
load_specs_from_dir_allow_override(map, dir_path, listing, settings) ==
    _load_specs_from_dir(map, dir_path, listing, settings, TRUE, 1)

LoadSpecsFromDir ==
    /\ last = NoCall
    /\ \E listing \in TemplatesDirListings :
          LET r == load_specs_from_dir(id2spec, TemplatesDir, listing, LoadSpecSettings)
          IN  /\ id2spec' = r.id2spec
              /\ last' = [op |-> "load_specs_from_dir", allow_override |-> FALSE,
                          listing |-> listing, res |-> r.res,
                          pre_id2spec |-> id2spec]
    /\ UNCHANGED <<templates, global_embeddings, fix_newlines, free_templates,
                   owned_spec>>

LoadSpecsFromDirAllowOverride ==
    /\ last = NoCall
    /\ \E listing \in TemplatesDirListings :
          LET r == load_specs_from_dir_allow_override(id2spec, TemplatesDir, listing,
                                                      LoadSpecSettings)
          IN  /\ id2spec' = r.id2spec
              /\ last' = [op |-> "load_specs_from_dir", allow_override |-> TRUE,
                          listing |-> listing, res |-> r.res,
                          pre_id2spec |-> id2spec]
    /\ UNCHANGED <<templates, global_embeddings, fix_newlines, free_templates,
                   owned_spec>>

LibRemoveSpec ==
    /\ last = NoCall
    /\ \E spec_id \in RegIds :
          LET r == lib_remove_spec(id2spec, spec_id)
          IN  /\ id2spec' = r.id2spec
              /\ last' = [op |-> "remove_spec", id |-> spec_id, res |-> r.res,
                          pre_id2spec |-> id2spec]
    /\ UNCHANGED <<templates, global_embeddings, fix_newlines, free_templates,
                   owned_spec>>

LibNext ==
    LoadSpecsFromDir \/ LoadSpecsFromDirAllowOverride \/ LibRemoveSpec \/ Return

LibSpec == Init /\ [][LibNext]_vars

\* ------------------------------------------------------------- properties

\* the last call was insert_spec on an id that was bound / not bound
Replacing == last.op = "insert_spec" /\ last.id \in DOMAIN last.pre_id2spec
Inserting == last.op = "insert_spec" /\ last.id \notin DOMAIN last.pre_id2spec
OldSpec == last.pre_id2spec[last.id]

\* the SubSpecification ids of all bound specs
BoundSubIds(map) == UNION { SubIds(map[rid]) : rid \in DOMAIN map }

\* C1: every bound spec has all its SubSpecification ids loaded in the
\* backend; right after a successful insert_spec(id, spec), lookup_spec(id)
\* returns spec and all its sub-ids are loaded.
C1_BoundSpecsAreLoaded ==
    /\ \A rid \in DOMAIN id2spec : SubIds(id2spec[rid]) \subseteq templates
    /\ (last.op = "insert_spec" /\ last.res.ok) =>
          /\ lookup_spec(id2spec, last.id) = Some(last.spec)
          /\ SubIds(last.spec) \subseteq templates

C1_Witness ==
    /\ last.op = "insert_spec" /\ last.res.ok
    /\ Len(sub_specs(last.spec)) = 2
    /\ Cardinality(DOMAIN id2spec) = 2
    /\ Cardinality(DOMAIN last.pre_id2spec) = 2

\* C2: a load_templates call that returns an error leaves the backend's
\* loaded set exactly as it was before the call.
C2_LoadAllOrNothing ==
    (last.op = "load_templates" /\ ~last.res.ok) =>
        templates = last.pre_templates

C2_Witness ==
    /\ last.op = "load_templates" /\ ~last.res.ok
    /\ Len(sub_specs(last.spec)) = 2
    /\ last.res.error.id = id(sub_specs(last.spec)[2].source)
    /\ id(sub_specs(last.spec)[1].source) \notin last.pre_templates
    /\ id(sub_specs(last.spec)[1].source) # id(sub_specs(last.spec)[2].source)
    /\ last.pre_templates # {}

\* C3: a failed insert_spec on a bound id leaves no entry for the id, leaves
\* all other bindings unchanged and returns the backend error, the failed new
\* spec and Some(old).
C3_FailedReplaceRemovesBinding ==
    (Replacing /\ ~last.res.ok) =>
        /\ last.id \notin DOMAIN id2spec
        /\ \A rid \in RegIds \ {last.id} :
              lookup_spec(id2spec, rid) = lookup_spec(last.pre_id2spec, rid)
        /\ last.res.error.failed_new_value = last.spec
        /\ last.res.error.old_value = Some(OldSpec)
        /\ last.res.error.error =
              load_templates(last.pre_templates \ SubIds(OldSpec),
                             last.spec, last.bad).res.error

C3_Witness ==
    /\ Replacing /\ ~last.res.ok
    /\ OldSpec # last.spec
    /\ DOMAIN id2spec # {}

\* C4 as stated: after a failed insert_spec on a bound id, lookup_spec(id) is
\* absent and the backend holds none of new's and none of old's ids.
C4_Original ==
    (Replacing /\ ~last.res.ok) =>
        /\ lookup_spec(id2spec, last.id) = None
        /\ SubIds(last.spec) \cap templates = {}
        /\ SubIds(OldSpec) \cap templates = {}

\* C4 (amended): after a failed insert_spec on a bound id, lookup_spec(id) is
\* absent, the backend holds none of old's ids, and the only ids of new it
\* holds are ids that were loaded before the call and are not old's (they
\* belong to specs bound under other registry ids).
C4_FailedReplaceUnloadsBoth ==
    (Replacing /\ ~last.res.ok) =>
        /\ lookup_spec(id2spec, last.id) = None
        /\ SubIds(OldSpec) \cap templates = {}
        /\ SubIds(last.spec) \cap templates
              \subseteq last.pre_templates \ SubIds(OldSpec)
        /\ SubIds(last.spec) \cap templates \subseteq BoundSubIds(id2spec)

C4_Witness ==
    /\ Replacing /\ ~last.res.ok
    /\ Len(sub_specs(last.spec)) = 2
    /\ last.res.error.error.kind = "TemplateIdCollision"
    /\ SubIds(last.spec) \cap templates # {}
    /\ SubIds(last.spec) \ last.pre_templates # {}

\* C5: a failed insert_spec on an unbound id leaves the map and the backend's
\* loaded set as before the call and reports the failed spec and no old value.
C5_FailedInsertChangesNothing ==
    (Inserting /\ ~last.res.ok) =>
        /\ id2spec = last.pre_id2spec
        /\ templates = last.pre_templates
        /\ last.res.error.failed_new_value = last.spec
        /\ last.res.error.old_value = None

C5_Witness ==
    /\ Inserting /\ ~last.res.ok
    /\ Len(sub_specs(last.spec)) = 2
    /\ id(sub_specs(last.spec)[1].source) \notin last.pre_templates
    /\ last.res.error.error.id = id(sub_specs(last.spec)[2].source)
    /\ last.pre_id2spec # << >>

\* C6: per registry id the status after a call is determined by the call:
\* a successful insert binds the new spec, a failed insert and a remove leave
\* the id unbound (a failed replacement does not revert to the old spec), and
\* a call on one id never changes the binding of another id.
C6_StatusTransitions ==
    (last.op \in {"insert_spec", "remove_spec"}) =>
        \A y \in RegIds :
            IF y # last.id
            THEN lookup_spec(id2spec, y) = lookup_spec(last.pre_id2spec, y)
            ELSE IF last.op = "insert_spec" /\ last.res.ok
            THEN lookup_spec(id2spec, y) = Some(last.spec)
            ELSE lookup_spec(id2spec, y) = None

C6_Witness ==
    /\ Replacing /\ ~last.res.ok
    /\ Cardinality(DOMAIN last.pre_id2spec) = 2
    /\ Cardinality(DOMAIN id2spec) = 1

\* the ids of the new spec are pairwise distinct, none of them is loaded by
\* anything but the old spec, and no add operation fails
ReplaceCanLoad ==
    /\ Replacing
    /\ Cardinality(SubIds(last.spec)) = Len(sub_specs(last.spec))
    /\ SubIds(last.spec) \cap (last.pre_templates \ SubIds(OldSpec)) = {}
    /\ SubIds(last.spec) \cap last.bad = {}

\* C7: the old spec is unloaded before the new one is loaded: a replacement
\* whose new spec reuses ids of old succeeds, returns Some(old), and afterwards
\* exactly new's ids are loaded in place of old's.
C7_UnloadBeforeLoad ==
    (ReplaceCanLoad /\ SubIds(last.spec) \cap SubIds(OldSpec) # {}) =>
        /\ last.res = [ok |-> TRUE, value |-> Some(OldSpec)]
        /\ lookup_spec(id2spec, last.id) = Some(last.spec)
        /\ templates = (last.pre_templates \ SubIds(OldSpec)) \cup SubIds(last.spec)

C7_Witness ==
    /\ ReplaceCanLoad
    /\ last.res.ok
    /\ SubIds(last.spec) \cap SubIds(OldSpec) # {}
    /\ SubIds(OldSpec) \ SubIds(last.spec) # {}
    /\ SubIds(OldSpec) \ SubIds(last.spec) \subseteq TplIds \ templates
    /\ Cardinality(DOMAIN id2spec) = 2

\* C8: the backend holds no orphan id: every loaded id is a SubSpecification
\* id of a spec that is currently bound.
C8_NoOrphans ==
    templates \subseteq BoundSubIds(id2spec)

C8_Witness ==
    /\ Replacing /\ ~last.res.ok
    /\ Len(sub_specs(last.spec)) = 2
    /\ id(sub_specs(last.spec)[1].source) \notin (last.pre_templates \ SubIds(OldSpec))
    /\ id(sub_specs(last.spec)[1].source) \notin SubIds(OldSpec)
    /\ last.res.error.error.id = id(sub_specs(last.spec)[2].source)
    /\ templates # {}

\* the id of the k-th SubSpecification is present when it is about to be
\* registered: it was loaded before the call or registered earlier in the call
PresentAt(k) ==
    LET subs == sub_specs(last.spec)
    IN  \/ id(subs[k].source) \in last.pre_templates
        \/ \E j \in 1..(k - 1) : id(subs[j].source) = id(subs[k].source)

\* the load reaches the k-th SubSpecification: all earlier ones were added
ReachedAt(k) ==
    \A j \in 1..(k - 1) :
        /\ ~PresentAt(j)
        /\ id(sub_specs(last.spec)[j].source) \notin last.bad

\* C9: load_templates fails with a collision error exactly when the id of a
\* SubSpecification is present in the backend when it is about to be
\* registered, and the error names the first such id.
C9_CollisionExactly ==
    (last.op = "load_templates") =>
        LET subs == sub_specs(last.spec)
            isCollision == ~last.res.ok /\ last.res.error.kind = "TemplateIdCollision"
        IN  /\ isCollision <=> \E k \in DOMAIN subs : ReachedAt(k) /\ PresentAt(k)
            /\ \A k \in DOMAIN subs :
                  (ReachedAt(k) /\ PresentAt(k)) =>
                      last.res = TemplateIdCollision(id(subs[k].source))

C9_Witness ==
    /\ last.op = "load_templates"
    /\ ~last.res.ok /\ last.res.error.kind = "TemplateIdCollision"
    /\ Len(sub_specs(last.spec)) = 2
    /\ last.res.error.id = id(sub_specs(last.spec)[2].source)
    /\ last.res.error.id \in last.pre_templates
    /\ last.res.error.id \in last.bad

\* C10: unload_templates removes exactly the ids of the spec, leaves all other
\* ids alone, and a second call changes nothing.
C10_UnloadExactAndIdempotent ==
    (last.op = "unload_templates") =>
        /\ templates = last.pre_templates \ SubIds(last.spec)
        /\ unload_templates(templates, last.spec) = templates

C10_Witness ==
    /\ last.op = "unload_templates"
    /\ SubIds(last.spec) \cap last.pre_templates # {}
    /\ SubIds(last.spec) \ last.pre_templates # {}
    /\ templates # {}

\* C11: remove_spec on an id that is not bound returns None, makes no backend
\* call and leaves the map, the global embeddings and the backend unchanged.
C11_RemoveUnboundIsNoOp ==
    (last.op = "remove_spec" /\ last.id \notin DOMAIN last.pre_id2spec) =>
        /\ last.res = None
        /\ last.calls = <<>>
        /\ id2spec = last.pre_id2spec
        /\ templates = last.pre_templates
        /\ global_embeddings = last.pre_global_embeddings

C11_Witness ==
    /\ last.op = "remove_spec" /\ last.id \notin DOMAIN last.pre_id2spec
    /\ id2spec # << >>
    /\ global_embeddings # << >>

\* C12: remove_spec on a bound id returns the bound spec, removes the entry,
\* unloads all its ids, and every other bound spec stays bound and loaded.
C12_RemoveBoundUnloads ==
    (last.op = "remove_spec" /\ last.id \in DOMAIN last.pre_id2spec) =>
        /\ last.res = Some(last.pre_id2spec[last.id])
        /\ lookup_spec(id2spec, last.id) = None
        /\ SubIds(last.pre_id2spec[last.id]) \cap templates = {}
        /\ \A rid \in DOMAIN last.pre_id2spec \ {last.id} :
              /\ lookup_spec(id2spec, rid) = Some(last.pre_id2spec[rid])
              /\ SubIds(last.pre_id2spec[rid]) \subseteq templates

C12_Witness ==
    /\ last.op = "remove_spec" /\ last.id \in DOMAIN last.pre_id2spec
    /\ Len(sub_specs(last.pre_id2spec[last.id])) = 2
    /\ Cardinality(DOMAIN last.pre_id2spec) = 2
    /\ templates # {}

\* C13: after a failed replacing insert_spec(id, new) that returned
\* Some(old), insert_spec(id, old) takes the unbound path and never fails with
\* an id collision; when old's templates can be added it restores id -> old
\* with all of old's ids loaded.
C13_OldCanBeReinserted ==
    (Replacing /\ ~last.res.ok) =>
        /\ insert_spec(id2spec, templates, last.id, OldSpec, {})
              = [id2spec |-> last.pre_id2spec,
                 engine |-> last.pre_templates,
                 calls |-> <<"load_templates">>,
                 res |-> [ok |-> TRUE, value |-> None]]
        /\ lookup_spec(last.pre_id2spec, last.id) = Some(OldSpec)
        /\ SubIds(OldSpec) \subseteq last.pre_templates
        /\ \A t \in SubIds(OldSpec) :
              insert_spec(id2spec, templates, last.id, OldSpec, {t}).res
                  = InsertionError(AddError(t).error, OldSpec, None)

C13_Witness ==
    /\ Replacing /\ ~last.res.ok
    /\ last.res.error.old_value = Some(OldSpec)
    /\ Len(sub_specs(OldSpec)) = 2
    /\ SubIds(last.spec) \cap SubIds(OldSpec) # {}
    /\ id2spec # << >>

\* the layers of the recorded call that bind the name
LayersWith(name) == { i \in DOMAIN last.layers : name \in DOMAIN last.layers[i] }

\* C14: AdditionalCIds::get(name) returns the content id of the first layer
\* that contains the name and None when no layer contains it.
C14_GetFirstLayer ==
    last.op = "get" =>
        /\ LayersWith(last.name) = {} => last.res = None
        /\ \A i \in LayersWith(last.name) :
              (\A j \in LayersWith(last.name) : i <= j) =>
                  last.res = Some(last.layers[i][last.name].content_id)

\* layers [{a:X}, {a:Y, b:X}, {b:Y}] and get(b): the second layer decides
C14_Witness ==
    /\ last.op = "get" /\ last.name = 2
    /\ Len(last.layers) = 3
    /\ DOMAIN last.layers[1] = {1} /\ last.layers[1][1].content_id = "X"
    /\ DOMAIN last.layers[2] = {1, 2}
    /\ last.layers[2][1].content_id = "Y" /\ last.layers[2][2].content_id = "X"
    /\ DOMAIN last.layers[3] = {2} /\ last.layers[3][2].content_id = "Y"
    /\ last.res = Some("X")

\* C15: the serialized view of AdditionalCIds emits each name exactly once,
\* with the content id of the highest-precedence layer that has the name.
C15_SerializeEachNameOnce ==
    last.op = "serialize" =>
        /\ \A n \in EmbNames :
              Cardinality({ k \in DOMAIN last.res : last.res[k][1] = n })
                  = IF LayersWith(n) = {} THEN 0 ELSE 1
        /\ \A k \in DOMAIN last.res :
              Some(last.res[k][2]) = get(AdditionalCIds(last.layers), last.res[k][1])

\* the recorded call is use_template on a bound id
UsingBound == last.op = "use_template" /\ last.id \in DOMAIN id2spec

\* the sub-specs of the spec the recorded use_template call rendered
UsedSubs == sub_specs(id2spec[last.id])

\* a resource as an inline embedding / as an attachment
Inline(resource) == EmbeddedWithCId(resource, "inline")

\* C16: use_template on an id that is not bound fails with the unknown
\* template id error built from that id, renders nothing and mints no
\* embedding.
C16_UnknownIdFails ==
    (last.op = "use_template" /\ last.id \notin DOMAIN id2spec) =>
        /\ ~last.res.ok
        /\ last.res.error = [kind |-> "UnknownTemplateId", id |-> last.id]
        /\ last.calls = <<>>
        /\ last.minted = {}

C16_Witness ==
    /\ last.op = "use_template" /\ last.id \notin DOMAIN id2spec
    /\ id2spec # << >>
    /\ last.id = 2

\* C17: a successful use_template returns one body per sub-spec, in the
\* spec's order, each with the sub-spec's media type and its own embeddings,
\* plus the spec's shared embeddings and the spec's attachments with
\* attachment disposition.
C17_MailParts ==
    (UsingBound /\ last.res.ok) =>
        LET spec == id2spec[last.id]
            parts == last.res.value
        IN  /\ Len(parts.alternative_bodies) = Len(UsedSubs)
            /\ \A i \in DOMAIN UsedSubs :
                  /\ parts.alternative_bodies[i].resource.media_type
                        = UsedSubs[i].media_type
                  /\ parts.alternative_bodies[i].resource.content
                        \in { RenderOutput(id(UsedSubs[i].source)),
                              fix_newlines_text(RenderOutput(id(UsedSubs[i].source))) }
                  /\ parts.alternative_bodies[i].embeddings
                        = { Inline(UsedSubs[i].embeddings[n]) :
                                n \in DOMAIN UsedSubs[i].embeddings }
            /\ parts.shared_embeddings
                  = { Inline(spec.embeddings[n]) : n \in DOMAIN spec.embeddings }
            /\ Len(parts.attachments) = Len(spec.attachments)
            /\ \A j \in DOMAIN spec.attachments :
                  /\ parts.attachments[j].resource = spec.attachments[j]
                  /\ parts.attachments[j].disposition = "attachment"

C17_Witness ==
    /\ UsingBound /\ last.res.ok
    /\ Len(UsedSubs) = 2
    /\ UsedSubs[1].media_type # UsedSubs[2].media_type
    /\ UsedSubs[1].embeddings # << >>
    /\ UsedSubs[2].embeddings # << >>
    /\ UsedSubs[1].embeddings # UsedSubs[2].embeddings
    /\ id2spec[last.id].embeddings # << >>
    /\ last.res.value.attachments # << >>

\* C18: every render call of use_template gets the layers [this body's
\* embeddings, the spec's shared embeddings, the global embeddings]: a name
\* of the body shadows the shared one, a shared one shadows the global one,
\* and no embedding of another body is visible.
C18_CidLayers ==
    UsingBound =>
        LET spec == id2spec[last.id]
        IN  \A i \in DOMAIN last.calls :
              LET cids == last.calls[i].additional_cids
                  body == UsedSubs[i].embeddings
              IN  /\ last.calls[i].sub_spec = UsedSubs[i]
                  /\ Len(cids.additional_resources) = 3
                  /\ \A n \in EmbNames :
                        get(cids, n) =
                            IF n \in DOMAIN body
                            THEN Some(Inline(body[n]).content_id)
                            ELSE IF n \in DOMAIN spec.embeddings
                            THEN Some(Inline(spec.embeddings[n]).content_id)
                            ELSE IF n \in DOMAIN global_embeddings
                            THEN Some(global_embeddings[n].content_id)
                            ELSE None
                  /\ \A j \in DOMAIN UsedSubs \ {i} :
                        \A n \in EmbNames, m \in DOMAIN UsedSubs[j].embeddings :
                            get(cids, n) # Some(Inline(UsedSubs[j].embeddings[m]).content_id)

\* two bodies were rendered: in one call a name is bound by the body, the
\* shared and the global layer; in one call a name is bound by the shared and
\* the global layer only, and the other body binds it too
C18_Witness ==
    /\ UsingBound /\ Len(last.calls) = 2
    /\ \E i \in DOMAIN UsedSubs, n \in EmbNames :
          /\ n \in DOMAIN UsedSubs[i].embeddings
          /\ n \in DOMAIN id2spec[last.id].embeddings
          /\ n \in DOMAIN global_embeddings
    /\ \E i \in DOMAIN UsedSubs, n \in EmbNames :
          /\ n \notin DOMAIN UsedSubs[i].embeddings
          /\ n \in DOMAIN id2spec[last.id].embeddings
          /\ n \in DOMAIN global_embeddings
          /\ \E j \in DOMAIN UsedSubs \ {i} : n \in DOMAIN UsedSubs[j].embeddings

\* the positions of the sub-specs whose rendering fails in the recorded call
FailingSubs == { i \in DOMAIN UsedSubs : id(UsedSubs[i].source) \in last.fails }

\* C19: when render fails for a sub-spec, use_template returns that error and
\* no MailParts, and the sub-specs after the failing one are not rendered.
C19_RenderFailurePropagates ==
    (UsingBound /\ FailingSubs # {}) =>
        LET k == CHOOSE i \in FailingSubs : \A j \in FailingSubs : i <= j
        IN  /\ ~last.res.ok
            /\ last.res.error
                  = [kind |-> "RenderError", id |-> id(UsedSubs[k].source)]
            /\ DOMAIN last.res = {"ok", "error"}
            /\ Len(last.calls) = k
            /\ \A i \in DOMAIN last.calls : last.calls[i].sub_spec = UsedSubs[i]

\* the first of two sub-specs fails: the second is not rendered
C19_Witness ==
    /\ UsingBound /\ Len(UsedSubs) = 2
    /\ FailingSubs = {1}
    /\ Len(last.calls) = 1
    /\ ~last.res.ok

\* C20: add_global_embedding and remove_global_embedding change only the
\* global embeddings (add returns the value stored before, remove the value
\* removed or None), make no backend call and leave the id -> spec map and the
\* loaded templates unchanged.
C20_GlobalEmbeddingsFrame ==
    /\ last.op = "add_global_embedding" =>
          /\ last.res = lookup_spec(last.pre_global_embeddings, last.name)
          /\ global_embeddings = MapInsert(last.pre_global_embeddings,
                                           last.name, last.value)
    /\ last.op = "remove_global_embedding" =>
          /\ last.res = lookup_spec(last.pre_global_embeddings, last.name)
          /\ global_embeddings = MapRemove(last.pre_global_embeddings, last.name)
    /\ last.op \in {"add_global_embedding", "remove_global_embedding"} =>
          /\ last.calls = <<>>
          /\ id2spec = last.pre_id2spec
          /\ templates = last.pre_templates

\* an add that replaces a different stored value, with a spec bound
C20_Witness ==
    /\ last.op = "add_global_embedding"
    /\ last.name \in DOMAIN last.pre_global_embeddings
    /\ last.pre_global_embeddings[last.name] # last.value
    /\ last.res = Some(last.pre_global_embeddings[last.name])
    /\ templates # {}

\* every line ending of the text is CR LF
ValidNewlines(text) ==
    \A i \in DOMAIN text :
        /\ text[i] = "CR" => (i < Len(text) /\ text[i + 1] = "LF")
        /\ text[i] = "LF" => (i > 1 /\ text[i - 1] = "CR")

\* the text without its line ending characters
NonNewlines(text) == SelectSeq(text, LAMBDA c : c \notin {"CR", "LF"})

\* the bodies of the recorded use_template call have the rendered text with
\* normalized line endings when the flag is set, and the rendered text itself
\* when it is not
BodiesFollowFlag ==
    (UsingBound /\ last.res.ok) =>
        \A i \in DOMAIN UsedSubs :
            LET text == RenderOutput(id(UsedSubs[i].source))
                content == last.res.value.alternative_bodies[i].resource.content
            IN  IF fix_newlines
                THEN /\ ValidNewlines(content)
                     /\ NonNewlines(content) = NonNewlines(text)
                     /\ ValidNewlines(text) => content = text
                ELSE content = text

\* C21: a new registry's newline flag is the negation of the backend's
\* PRODUCES_VALID_NEWLINES (false for both backends, so the flag is set);
\* set_fix_newlines overrides it; use_template normalizes the line endings of
\* every body exactly when the flag is set.
C21_FixNewlinesFlag ==
    /\ fix_newlines = TRUE
    /\ [](last.op = "set_fix_newlines" => fix_newlines = last.should_fix_newlines)
    /\ []BodiesFollowFlag

\* the flag is set and the text of a body needed fixing
C21_Witness ==
    /\ UsingBound /\ last.res.ok
    /\ fix_newlines
    /\ \E i \in DOMAIN UsedSubs :
          /\ ~ValidNewlines(RenderOutput(id(UsedSubs[i].source)))
          /\ last.res.value.alternative_bodies[i].resource.content
                # RenderOutput(id(UsedSubs[i].source))

\* ------------------------------------------------- properties of from_dir

\* the recorded call is from_dir / from_dir of spec/from_dir.rs
Compiling == last.op = "from_dir"
CompilingSpec == Compiling /\ last.crate = "spec/from_dir.rs"

\* the name of a file as an embedding: what precedes its first "."
DerivedName(file_name) ==
    LET dots == { k \in DOMAIN file_name : file_name[k] = "." }
    IN  IF dots = {} THEN file_name
        ELSE SubSeq(file_name, 1, (CHOOSE k \in dots : \A j \in dots : k <= j) - 1)

\* the positions of the subdirectories / of the other entries in the listing
\* of the base directory of the recorded call
SubDirs == { i \in DOMAIN last.fs.entries : last.fs.entries[i].file_type = "dir" }
BaseFiles == DOMAIN last.fs.entries \ SubDirs

\* the resource from_dir makes of the file at a path
ResourceOf(path) ==
    PathResource(path, determine_media_type(LoadSpecSettings, path))

\* the embeddings made of the entries at the given positions of a listing:
\* one per entry, keyed by the derived name
IsEmbeddingsOf(embeddings, dir, listing, positions) ==
    /\ DOMAIN embeddings = { DerivedName(listing[i].file_name) : i \in positions }
    /\ \A i \in positions :
          embeddings[DerivedName(listing[i].file_name)]
              = ResourceOf(Append(dir, listing[i].file_name))

\* the name of a template file of the type: base name and one of the suffixes
TemplateFileNames(type_) ==
    { type_.template_base_name \o type_.suffixes[k] : k \in DOMAIN type_.suffixes }

\* the sub-spec is the one of the subdirectory: its source is a template file
\* of the directory, its media type the one of the directory's type, and its
\* embeddings are the other entries of the directory
IsSubSpecOf(sub, dir) ==
    LET listing == read_dir(last.fs, dir)
        type_ == LoadSpecSettings.types[dir[Len(dir)]].type
    IN  /\ parent(sub.source) = dir
        /\ sub.source[Len(sub.source)] \in TemplateFileNames(type_)
        /\ exists(last.fs, sub.source)
        /\ sub.media_type = type_.media_type
        /\ IsEmbeddingsOf(sub.embeddings, dir, listing,
              { i \in DOMAIN listing :
                  listing[i].file_name # sub.source[Len(sub.source)] })

\* the paths of the subdirectories of the base directory
SubDirPaths ==
    { entry_path(last.fs.base_path, last.fs.entries[i]) : i \in SubDirs }

\* the positions of the template files of a configured subdirectory
TemplateFilesIn(dir) ==
    { i \in DOMAIN read_dir(last.fs, dir) :
        read_dir(last.fs, dir)[i].file_name
            \in TemplateFileNames(LoadSpecSettings.types[dir[Len(dir)]].type) }

\* the pairs of entries of a listing that would get the same embedding name
SameName(listing, positions) ==
    { pair \in positions \X positions :
        /\ pair[1] < pair[2]
        /\ DerivedName(listing[pair[1]].file_name)
              = DerivedName(listing[pair[2]].file_name) }

\* the base directory has a subdirectory, every subdirectory is configured
\* and every other entry is a regular file
ValidBase ==
    /\ SubDirs # {}
    /\ \A i \in SubDirs : last.fs.entries[i].file_name \in DOMAIN LoadSpecSettings.types
    /\ \A i \in BaseFiles : last.fs.entries[i].file_type = "file"

\* the subdirectory has one template file and its other entries are
\* regular files
ValidBody(dir) ==
    /\ Cardinality(TemplateFilesIn(dir)) = 1
    /\ \A i \in DOMAIN read_dir(last.fs, dir) : read_dir(last.fs, dir)[i].file_type = "file"

\* the entries of the subdirectory that are no template files
OtherFilesIn(dir) == DOMAIN read_dir(last.fs, dir) \ TemplateFilesIn(dir)

ValidTree ==
    /\ ValidBase
    /\ SameName(last.fs.entries, BaseFiles) = {}
    /\ \A dir \in SubDirPaths :
          ValidBody(dir) /\ SameName(read_dir(last.fs, dir), OtherFilesIn(dir)) = {}

\* C22: from_dir on a valid tree returns a spec with the directory as base
\* path, no attachments, the non-directory entries of the base directory as
\* shared embeddings keyed by derived name, and one sub-spec per configured
\* subdirectory with the template file as source, the media type of the type
\* and the other files of the subdirectory as embeddings.
C22_FromDirResult ==
    /\ (Compiling /\ ValidTree) => last.res.ok
    /\ (Compiling /\ last.res.ok) =>
        LET spec == last.res.value
            listing == last.fs.entries
        IN  /\ spec.base_path = Some(last.fs.base_path)
            /\ spec.attachments = <<>>
            /\ (\A i, j \in BaseFiles :
                   i # j => DerivedName(listing[i].file_name)
                              # DerivedName(listing[j].file_name))
                  => IsEmbeddingsOf(spec.embeddings, last.fs.base_path,
                                    listing, BaseFiles)
            /\ Len(spec.templates) = Cardinality(SubDirs)
            /\ \A i \in SubDirs :
                  \E k \in DOMAIN spec.templates :
                      IsSubSpecOf(spec.templates[k],
                                  entry_path(last.fs.base_path, listing[i]))

\* the tree of template_a: portfolio.pdf, text with mail.txt, html with
\* mail.html and logo.png
C22_Witness ==
    /\ CompilingSpec /\ last.res.ok
    /\ last.fs.entries = << DirEntry(<<"html">>, "dir"),
                            DirEntry(<<"portfolio", ".", "pdf">>, "file"),
                            DirEntry(<<"text">>, "dir") >>
    /\ last.fs.body = <<"logo.png", "template1">>
    /\ DOMAIN last.res.value.embeddings = { <<"portfolio">> }
    /\ Len(last.res.value.templates) = 2
    /\ last.res.value.templates[1].source
          = << <<"template_a">>, <<"text">>, <<"mail", ".", "txt">> >>
    /\ last.res.value.templates[1].embeddings = << >>
    /\ last.res.value.templates[2].media_type = "text/html"
    /\ DOMAIN last.res.value.templates[2].embeddings = { <<"logo">> }

\* the position in the base listing and the priority of the subdirectory a
\* sub-spec was made of
ListedAt(sub) ==
    CHOOSE i \in SubDirs : last.fs.entries[i].file_name = sub.source[2]
PriorityOf(sub) == LoadSpecSettings.types[sub.source[2]].prio

\* C23: from_dir orders the sub-specs by ascending priority of their
\* subdirectory, whatever the listing order, and keeps subdirectories of
\* equal priority in listing order.
C23_SortedByPriority ==
    (Compiling /\ last.res.ok) =>
        LET subs == last.res.value.templates
        IN  \A a, b \in DOMAIN subs :
              a < b =>
                \/ PriorityOf(subs[a]) < PriorityOf(subs[b])
                \/ /\ PriorityOf(subs[a]) = PriorityOf(subs[b])
                   /\ ListedAt(subs[a]) < ListedAt(subs[b])

\* listed as html, amp, text: text has the lowest priority and comes first,
\* html and amp have the same priority and stay in listing order
C23_Witness ==
    /\ Compiling /\ last.res.ok
    /\ Len(last.fs.entries) = 3
    /\ last.fs.entries[1].file_name = <<"html">>
    /\ last.fs.entries[2].file_name = <<"amp">>
    /\ last.fs.entries[3].file_name = <<"text">>
    /\ last.res.value.templates[1].source[2] = <<"text">>
    /\ last.res.value.templates[2].source[2] = <<"html">>
    /\ last.res.value.templates[3].source[2] = <<"amp">>

\* C24: when a body subdirectory has two files that are no template files
\* and derive the same embedding name, from_dir fails; in a tree that is
\* valid but for that it fails with DuplicateEmbeddingName naming the name,
\* whatever the listing order.
C24_DuplicateBodyEmbedding ==
    (Compiling /\ ValidBase
       /\ \E dir \in SubDirPaths :
             SameName(read_dir(last.fs, dir), OtherFilesIn(dir)) # {}) =>
        /\ ~last.res.ok
        /\ (\A dir \in SubDirPaths : ValidBody(dir)) =>
              /\ last.res.error.kind = "DuplicateEmbeddingName"
              /\ \E dir \in SubDirPaths :
                    \E pair \in SameName(read_dir(last.fs, dir), OtherFilesIn(dir)) :
                        last.res.error.name
                            = DerivedName(read_dir(last.fs, dir)[pair[1]].file_name)

\* logo.jpg listed before logo.png, the template file between them
C24_Witness ==
    /\ CompilingSpec
    /\ last.fs.entries = << DirEntry(<<"html">>, "dir") >>
    /\ last.fs.body = <<"logo.jpg", "template1", "logo.png">>
    /\ last.res = DuplicateEmbeddingName(<<"logo">>)

\* C25: when two entries of the base directory that are no directories
\* derive the same shared embedding name, from_dir fails with
\* DuplicateEmbeddingName.
C25_DuplicateSharedEmbedding ==
    (Compiling /\ ValidBase
       /\ (\A dir \in SubDirPaths :
              ValidBody(dir) /\ SameName(read_dir(last.fs, dir), OtherFilesIn(dir)) = {})
       /\ SameName(last.fs.entries, BaseFiles) # {}) =>
        /\ ~last.res.ok
        /\ last.res.error.kind = "DuplicateEmbeddingName"

\* the first subdirectory without type in the listing of the base directory
FirstUnconfigured ==
    CHOOSE i \in SubDirs :
        /\ last.fs.entries[i].file_name \notin DOMAIN LoadSpecSettings.types
        /\ \A j \in SubDirs :
              last.fs.entries[j].file_name \notin DOMAIN LoadSpecSettings.types
                 => i <= j

\* C26: when a subdirectory of the base directory has a name the settings
\* do not have, from_dir fails, it does not skip the subdirectory: with
\* MissingTypeInfo of that name when the listing is read up to it.
C26_MissingTypeInfo ==
    (Compiling
       /\ \E i \in SubDirs :
             last.fs.entries[i].file_name \notin DOMAIN LoadSpecSettings.types) =>
        /\ ~last.res.ok
        /\ (\A j \in BaseFiles :
               j < FirstUnconfigured => last.fs.entries[j].file_type = "file")
              => last.res = MissingTypeInfo(last.fs.entries[FirstUnconfigured].file_name)

\* a valid html directory is listed before the directory without type
C26_Witness ==
    /\ Compiling
    /\ last.fs.entries = << DirEntry(<<"html">>, "dir"), DirEntry(<<"other">>, "dir") >>
    /\ last.fs.body = <<"template1">>
    /\ last.res = MissingTypeInfo(<<"other">>)

\* C27: when the base directory has no subdirectory (it is empty or has
\* regular files only), from_dir fails with NoSubTemplatesFound of the base
\* directory.
C27_NoSubTemplatesFound ==
    (Compiling /\ SubDirs = {}
       /\ \A i \in BaseFiles : last.fs.entries[i].file_type = "file") =>
        last.res = NoSubTemplatesFound(last.fs.base_path)

C27_Witness ==
    /\ Compiling
    /\ last.fs.entries = << DirEntry(<<"portfolio", ".", "pdf">>, "file") >>
    /\ last.res = NoSubTemplatesFound(BasePath)

\* the sub-spec the recorded result has for the subdirectory
SubSpecFor(dir) ==
    LET subs == last.res.value.templates
    IN  subs[CHOOSE k \in DOMAIN subs : parent(subs[k].source) = dir]

\* the first suffix of the type whose template file is in the subdirectory
FirstSuffix(dir) ==
    LET type_ == LoadSpecSettings.types[dir[Len(dir)]].type
        present == { k \in DOMAIN type_.suffixes :
                       exists(last.fs, Append(dir, type_.template_base_name \o type_.suffixes[k])) }
    IN  CHOOSE k \in present : \A j \in present : k <= j

\* C28: the template file of a subdirectory is the first existing one of
\* base name + suffix in the suffix order of the type; without one from_dir
\* fails with TemplateFileMissing; several are no error: the first by suffix
\* order is the source and the others are body embeddings.
C28_TemplateFileBySuffixOrder ==
    (Compiling /\ ValidBase /\ SameName(last.fs.entries, BaseFiles) = {}
       /\ \A dir \in SubDirPaths :
             /\ \A i \in DOMAIN read_dir(last.fs, dir) :
                   read_dir(last.fs, dir)[i].file_type = "file"
             /\ SameName(read_dir(last.fs, dir), OtherFilesIn(dir)) = {}) =>
        IF \E dir \in SubDirPaths : TemplateFilesIn(dir) = {}
        THEN /\ ~last.res.ok
             /\ last.res.error.kind = "TemplateFileMissing"
             /\ TemplateFilesIn(last.res.error.dir) = {}
        ELSE /\ last.res.ok
             /\ \A dir \in SubDirPaths :
                   LET type_ == LoadSpecSettings.types[dir[Len(dir)]].type
                       sub == SubSpecFor(dir)
                   IN  /\ sub.source
                             = Append(dir, type_.template_base_name
                                             \o type_.suffixes[FirstSuffix(dir)])
                       /\ Cardinality(TemplateFilesIn(dir)) > 1
                             => <<"mail">> \in DOMAIN sub.embeddings

\* C29: the embedding name of a file is what precedes the first "." of its
\* name, the whole name without ".": this.is.a gives this, logo.png gives
\* logo, and a name that begins with "." gives the empty name, which from_dir
\* takes as the name of an embedding.
C29_EmbeddingName ==
    (last.op = "embedding_from_path" /\ last.fs.entries[1].file_type = "file") =>
        LET file_name == last.path[Len(last.path)]
        IN  /\ last.res.ok
            /\ last.res.name = DerivedName(file_name)
            /\ file_name = <<"this", ".", "is", ".", "a">> => last.res.name = <<"this">>
            /\ file_name = <<"logo", ".", "png">> => last.res.name = <<"logo">>
            /\ file_name[1] = "." => last.res.name = <<>>
            /\ last.spec.ok
            /\ DOMAIN last.spec.value.embeddings = { last.res.name }

\* .hidden gives the empty name, and from_dir binds it
C29_Witness ==
    /\ last.op = "embedding_from_path"
    /\ last.path[Len(last.path)] = <<".", "hidden">>
    /\ last.res.ok /\ last.res.name = <<>>
    /\ last.spec.ok /\ <<>> \in DOMAIN last.spec.value.embeddings

C31_NeverEmpty ==
    owned_spec # None => Len(sub_specs(owned_spec[1])) >= 1

\* try_pop was refused: one SubTemplateSpec is left of a spec that had more
C31_Witness ==
    /\ owned_spec # None
    /\ Len(sub_specs(owned_spec[1])) = 1
    /\ sub_specs(owned_spec[1])[1] # NewSubTemplateSpec(OtherPath, "text/plain", <<>>)
    /\ owned_spec[1].attachments # <<>>
    /\ owned_spec[1].base_path # Some(BasePath)


\* ---------------------------------------- properties of the Handlebars engine

\* the name is held by a template of that kind before the last call
HeldBy(name, kind) ==
    /\ name \in DOMAIN last.pre_templates
    /\ last.pre_templates[name].kind = kind

\* C32: registering a free template under a name held by a non-free template
\* returns FreeTemplateIdCollision and leaves that template as it is; under
\* an unused name it adds the template, under the name of a free template it
\* overwrites it
C32_FreeTemplateCollision ==
    last.op = "register_free_template" =>
        /\ HeldBy(last.name, "spec") =>
              /\ last.res = FreeTemplateIdCollision(last.name)
              /\ templates = last.pre_templates
        /\ (~HeldBy(last.name, "spec") /\ ~last.fails) =>
              /\ last.res.ok
              /\ templates = MapInsert(last.pre_templates, last.name,
                                       FreeTemplate(last.tpl))

\* C33 as stated: load_templates of a spec with a sub id that is the name of
\* a registered free template fails with TemplateIdCollision naming that id
\* and leaves the registry as it was
C33_Original ==
    last.op = "load_templates" =>
        \A i \in DOMAIN sub_specs(last.spec) :
            HeldBy(id(sub_specs(last.spec)[i].source), "free") =>
                /\ last.res = TemplateIdCollision(id(sub_specs(last.spec)[i].source))
                /\ templates = last.pre_templates

\* the first sub-template of the spec whose id is registered before the call
\* or repeats the id of an earlier sub-template
FirstCollision(spec, hbs) ==
    CHOOSE i \in DOMAIN sub_specs(spec) :
        /\ \/ id(sub_specs(spec)[i].source) \in DOMAIN hbs
           \/ \E j \in 1..(i - 1) : sub_specs(spec)[j].source = sub_specs(spec)[i].source
        /\ \A k \in 1..(i - 1) :
              /\ id(sub_specs(spec)[k].source) \notin DOMAIN hbs
              /\ \A j \in 1..(k - 1) : sub_specs(spec)[j].source # sub_specs(spec)[k].source

\* C33: load_templates of a spec with a sub id that is the name of a
\* registered free template fails and leaves the registry and the set of
\* free templates as they were; if no add operation fails, the error is
\* TemplateIdCollision naming the first sub id that is registered already or
\* repeats an earlier one
C33_LoadCollidesWithFree ==
    (/\ last.op = "load_templates"
     /\ \E i \in DOMAIN sub_specs(last.spec) :
           HeldBy(id(sub_specs(last.spec)[i].source), "free")) =>
        /\ ~last.res.ok
        /\ templates = last.pre_templates
        /\ free_templates = last.pre_free_templates
        /\ last.bad \cap SubIds(last.spec) = {} =>
              last.res = TemplateIdCollision(
                  id(sub_specs(last.spec)[FirstCollision(last.spec,
                                              last.pre_templates)].source))

\* the free template is the second sub id of the spec; the first one had
\* been registered by the call and is rolled back
C33_Witness ==
    /\ last.op = "load_templates"
    /\ Len(sub_specs(last.spec)) = 2
    /\ HeldBy(id(sub_specs(last.spec)[2].source), "free")
    /\ id(sub_specs(last.spec)[1].source) \notin DOMAIN last.pre_templates
    /\ last.bad = {}
    /\ last.res = TemplateIdCollision(id(sub_specs(last.spec)[2].source))
    /\ templates = last.pre_templates

\* C34: unregister_free_template does nothing when no template has the name
\* or when the template of that name is non-free; what it unregisters is a
\* free template
C34_UnregisterOnlyFree ==
    last.op = "unregister_free_template" =>
        /\ (last.name \notin DOMAIN last.pre_templates \/ HeldBy(last.name, "spec")) =>
              templates = last.pre_templates
        /\ templates # last.pre_templates => HeldBy(last.name, "free")

\* C35: clear_free_templates unregisters all free templates and only free
\* templates: no free template is left, the set of free templates is empty
\* and every template registered by load_templates is still registered
C35_ClearOnlyFree ==
    last.op = "clear_free_templates" =>
        /\ free_templates = {}
        /\ \A name \in DOMAIN templates : templates[name].kind # "free"
        /\ \A name \in DOMAIN last.pre_templates :
              HeldBy(name, "spec") =>
                  /\ name \in DOMAIN templates
                  /\ templates[name] = last.pre_templates[name]


\* ------------------------------------------------ properties of the registry

\* the ids of the spec are pairwise distinct
DistinctSubIds(spec) == Cardinality(SubIds(spec)) = Len(sub_specs(spec))

\* the sub ids of the bound specs are pairwise distinct
BoundSubIdsDistinct ==
    /\ \A rid \in DOMAIN id2spec : DistinctSubIds(id2spec[rid])
    /\ \A r1, r2 \in DOMAIN id2spec :
          r1 # r2 => SubIds(id2spec[r1]) \cap SubIds(id2spec[r2]) = {}

\* the spec of the last insert_spec repeats a sub id or shares one with a
\* spec bound under another registry id
InsertCollides ==
    /\ last.op = "insert_spec"
    /\ \/ ~DistinctSubIds(last.spec)
       \/ \E rid \in DOMAIN last.pre_id2spec :
             /\ rid # last.id
             /\ SubIds(last.pre_id2spec[rid]) \cap SubIds(last.spec) # {}

\* C36 as stated: the sub ids of the bound specs are pairwise distinct, and
\* an insert_spec whose spec repeats a sub id or shares one with a spec
\* bound under another registry id fails with a collision
C36_Original ==
    /\ BoundSubIdsDistinct
    /\ InsertCollides =>
          /\ ~last.res.ok
          /\ last.res.error.error.kind = "TemplateIdCollision"

\* C36: the sub ids of the bound specs are pairwise distinct, and an
\* insert_spec whose spec repeats a sub id or shares one with a spec bound
\* under another registry id fails: with a collision when none of its add
\* operations fails
C36_BoundSubIdsDistinct ==
    /\ BoundSubIdsDistinct
    /\ InsertCollides =>
          /\ ~last.res.ok
          /\ last.bad \cap SubIds(last.spec) = {} =>
                last.res.error.error.kind = "TemplateIdCollision"

\* two specs are bound and the insert of a spec sharing a sub id with the
\* one bound under the other registry id has failed with a collision
C36_Witness ==
    /\ last.op = "insert_spec"
    /\ DistinctSubIds(last.spec)
    /\ last.bad = {}
    /\ \E rid \in DOMAIN id2spec :
          /\ rid # last.id
          /\ SubIds(id2spec[rid]) \cap SubIds(last.spec) # {}
    /\ ~last.res.ok
    /\ last.res.error.error.kind = "TemplateIdCollision"


\* C37: after a successful insert_spec(id, s) on an unbound id, remove_spec(id)
\* returns s and puts the id -> spec map and the loaded set of the backend
\* back to what they were before the insert
C37_InsertRemoveRoundTrip ==
    (Inserting /\ last.res.ok) =>
        remove_spec(id2spec, templates, last.id) =
            [id2spec |-> last.pre_id2spec, engine |-> last.pre_templates,
             calls |-> <<"unload_templates">>, res |-> Some(last.spec)]

\* a spec of two sub-templates was inserted next to a bound spec
C37_Witness ==
    /\ Inserting /\ last.res.ok
    /\ Len(sub_specs(last.spec)) = 2
    /\ last.pre_id2spec # << >>
    /\ last.pre_templates # {}
    /\ templates # last.pre_templates


\* ------------------------------------------- the order of from_dir's errors

\* the result of compiling the subdirectory on its own, by the
\* sub_template_from_dir of the crate of the recorded call
DirResult(dir) ==
    IF last.crate = "spec/from_dir.rs"
    THEN sub_template_from_dir(last.fs, dir,
             LoadSpecSettings.types[dir[Len(dir)]].type, LoadSpecSettings)
    ELSE lib_sub_template_from_dir(last.fs, dir,
             LoadSpecSettings.types[dir[Len(dir)]].type, LoadSpecSettings)

\* the subdirectories that do not compile
FailingDirs == { dir \in SubDirPaths : ~DirResult(dir).ok }

\* the error comes from the pass over the base directory
FromFirstPass(res) ==
    /\ ~res.ok
    /\ \/ res.error.kind = "MissingTypeInfo"
       \/ res.error.kind = "NotAFile" /\ parent(res.error.path) = last.fs.base_path

\* C38: from_dir looks up the type of every subdirectory before it reads
\* any of them: with an unconfigured subdirectory in the base directory the
\* error never comes from inside a subdirectory; and when configured
\* subdirectories fail, the error is the one of a failing subdirectory of
\* the lowest priority value among them
C38_ErrorOrder ==
    Compiling =>
        /\ (\E i \in SubDirs :
               last.fs.entries[i].file_name \notin DOMAIN LoadSpecSettings.types)
              => FromFirstPass(last.res)
        /\ (ValidBase /\ FailingDirs # {}) =>
              \E dir \in FailingDirs :
                  /\ last.res = DirResult(dir)
                  /\ \A other \in FailingDirs :
                        LoadSpecSettings.types[dir[Len(dir)]].prio
                            <= LoadSpecSettings.types[other[Len(other)]].prio

\* the html directory is listed before the text directory, neither has a
\* template file, and the error is the one of the text directory
C38_Witness ==
    /\ Compiling
    /\ last.fs.entries = << DirEntry(<<"html">>, "dir"), DirEntry(<<"text">>, "dir") >>
    /\ last.fs.body = << >>
    /\ last.res = TemplateFileMissing(Append(BasePath, <<"text">>))


\* ------------------------------------------ properties of load_specs_from_dir

LoadingSpecs == last.op = "load_specs_from_dir"

\* the positions of the subdirectories in the listing of the recorded call
TemplateDirsListed ==
    { i \in DOMAIN last.listing : last.listing[i].file_type = "dir" }

\* the result of from_dir for the subdirectory at position i
CompiledAt(i) == from_dir_of_entry(TemplatesDir, last.listing[i], LoadSpecSettings)

\* the subdirectories up to position k are bound to their compiled specs and
\* every other id is bound as before the call
BoundUpTo(k) ==
    /\ \A i \in TemplateDirsListed :
          i <= k => /\ last.listing[i].file_name \in DOMAIN id2spec
                    /\ id2spec[last.listing[i].file_name] = CompiledAt(i).value
    /\ \A spec_id \in RegIds :
          (\A i \in TemplateDirsListed :
               i <= k => last.listing[i].file_name # spec_id) =>
              /\ spec_id \in DOMAIN id2spec <=> spec_id \in DOMAIN last.pre_id2spec
              /\ spec_id \in DOMAIN id2spec =>
                    id2spec[spec_id] = last.pre_id2spec[spec_id]

\* the positions of the subdirectories whose name is bound before the call
Overrides ==
    { i \in TemplateDirsListed : last.listing[i].file_name \in DOMAIN last.pre_id2spec }

\* C39: load_specs_from_dir returns AccidentalSpecOverride naming the id
\* when a subdirectory has the name of a bound id (every subdirectory up to
\* it compiles), add_spec has then replaced the binding of that id, and the
\* specs of the subdirectories listed before it stay bound;
\* load_specs_from_dir_allow_override replaces the bindings without error
C39_AccidentalSpecOverride ==
    LoadingSpecs =>
        /\ (~last.allow_override /\ Overrides # {}) =>
              \A k \in Overrides :
                  (/\ \A j \in Overrides : k <= j
                   /\ \A i \in TemplateDirsListed : i <= k => CompiledAt(i).ok) =>
                      /\ last.res = AccidentalSpecOverride(last.listing[k].file_name)
                      /\ BoundUpTo(k)
        /\ (last.allow_override /\ \A i \in TemplateDirsListed : CompiledAt(i).ok) =>
              /\ last.res = Ok
              /\ BoundUpTo(Len(last.listing))

\* the second subdirectory has the name of an id bound to another spec: the
\* call has bound the first one, replaced the binding of the second one and
\* returned the error
C39_Witness ==
    /\ LoadingSpecs /\ ~last.allow_override
    /\ Len(last.listing) = 2
    /\ TemplateDirsListed = {1, 2}
    /\ last.listing[1].file_name \notin DOMAIN last.pre_id2spec
    /\ last.listing[2].file_name \in DOMAIN last.pre_id2spec
    /\ last.res = AccidentalSpecOverride(last.listing[2].file_name)
    /\ last.listing[1].file_name \in DOMAIN id2spec
    /\ id2spec[last.listing[2].file_name] # last.pre_id2spec[last.listing[2].file_name]

====
